---------------------------- MODULE Spec2Model ----------------------------
(***************************************************************************)
(* AutoSeat: seat layout (utils/seat_layout.py), pair-weight merging       *)
(* (utils/data_processor.py) and the top-N seat assignment solver          *)
(* (utils/optimizer.py).                                                   *)
(*                                                                         *)
(* Conventions.  Python lists are sequences (1-based here, 0-based in the  *)
(* source: rows_per_col[c] of the source is rows_per_col[c+1] here).  A    *)
(* seat is <<column, row>>, both 0-based as in the source; an edge is      *)
(* <<seat1, seat2>>.  Weights are counted in half units, the step of the   *)
(* application's weight sliders (5.0 is 10, -5.5 is -11).                  *)
(***************************************************************************)
EXTENDS Integers, Sequences, FiniteSets, TLC

VARIABLES
    pc,             \* position of the operation under way
    n_cols,         \* layout: number of columns
    rows_per_col,   \* layout: rows of each column
    include_diag,   \* layout: diagonal adjacency flag
    aisles,         \* layout: list of <<left column, right column>>
    seats,          \* result of generate_seats
    oriented_edges, \* result of generate_adjacent_edges
    willing_pairs_by_rank,    \* rank -> set of pairs (a pair is a set of names)
    unwilling_pairs_by_rank,  \* rank -> set of pairs
    w_weights,      \* willing weight of each rank
    uw_weights,     \* unwilling weight of each rank
    custom_pairs,   \* list of <<name1, name2, weight>>
    pair_weights,   \* dict pair -> weight, as its set of <<key, value>> items
    people,         \* solve_top_n_assignments: the list of names
    top_n,          \* number of plans asked for
    m_terms,        \* the model's objective: list of <<i, j, s, t, w>>, one
                    \* per product variable m = x[i,s] * x[j,t], coefficient w
    model_built,    \* whether the CpModel has been built
    cuts,           \* the no-good cuts added to the model (list of assign_idx)
    k,              \* loop counter of the top-N loop
    statuses,       \* status of every solver.Solve call so far, in call order
    results,        \* the list of SeatAssignmentResult
    progress,       \* values passed to progress_callback, <<num, den>> each
    outcome,        \* "none", <<"returned", list>> or <<"raised", kind>>
    metrics_assignment,  \* compute_satisfaction_metrics: person -> seat index
    positive_pairs, \* compute_satisfaction_metrics: the set of liked pairs
    metrics,        \* the tuple compute_satisfaction_metrics returns
    satisfaction_rate, \* the rate the application derives from the tuple
    names,          \* app.py: the loaded name list
    preferences,    \* app.py: the list of [name1, kind, name2]
    session_state,  \* app.py: results, seats, edges, pair_weights, names
    app_report,     \* app.py: what the last run of the script showed in tab2
    solver_call,    \* app.py: <<P, S>> of the last solve_top_n_assignments
                    \* call, <<>> before the first
    export_assignment,    \* export_assignment_to_image: person -> seat index
    show_all_lines,       \* export_assignment_to_image: flag
    split_visualization,  \* export_assignment_to_image: flag
    export_result,  \* what export_assignment_to_image returned and drew
    sys_version_info,  \* start_app.py: <<major, minor>> of the runtime
    installed,         \* start_app.py: the required packages that import
    operator_answer,   \* start_app.py: what input() returns, as characters
    utils_importable,  \* start_app.py: "from utils import ..." succeeds
    launcher,       \* start_app.py: what main() has done so far
    gen_seed,       \* test_data_generator.py: the seed both runs are given
    gen_call,       \* test_data_generator.py: the arguments both runs are given
    generator,      \* test_data_generator.py: per run, its hash seed, the
                    \* state of random, its position and what it produced
    loader,         \* load_names_from_excel: the column read and the list
                    \* returned
    manual,         \* app.py: the manual preference text and what was
                    \* parsed from it
    sheet           \* the preference sheet written by the generator and
                    \* the ranges detected in it

layoutVars == <<n_cols, rows_per_col, include_diag, aisles, seats, oriented_edges>>

weightInputVars == <<willing_pairs_by_rank, unwilling_pairs_by_rank,
                     w_weights, uw_weights, custom_pairs>>

solveVars == <<people, top_n, m_terms, model_built, cuts, k, statuses,
               results, progress, outcome>>

metricsVars == <<metrics_assignment, positive_pairs, metrics,
                 satisfaction_rate>>

appVars == <<names, preferences, session_state, app_report, solver_call>>

\* the variables no action of the layout, weights and solver parts changes
exportVars == <<export_assignment, show_all_lines, split_visualization,
                export_result>>

launcherVars == <<sys_version_info, installed, operator_answer,
                  utils_importable, launcher>>

generatorVars == <<gen_seed, gen_call, generator>>

ingestVars == <<loader, manual, sheet>>

otherVars == <<metricsVars, appVars, exportVars, launcherVars, generatorVars,
               ingestVars>>

\* the variables of the parts other than the named one
exceptMetrics ==
    <<appVars, exportVars, launcherVars, generatorVars, ingestVars>>
exceptApp ==
    <<metricsVars, exportVars, launcherVars, generatorVars, ingestVars>>
exceptExport ==
    <<metricsVars, appVars, launcherVars, generatorVars, ingestVars>>
exceptLauncher ==
    <<metricsVars, appVars, exportVars, generatorVars, ingestVars>>
exceptGenerator ==
    <<metricsVars, appVars, exportVars, launcherVars, ingestVars>>
exceptIngest ==
    <<metricsVars, appVars, exportVars, launcherVars, generatorVars>>

vars == <<pc, layoutVars, weightInputVars, pair_weights, solveVars, otherVars>>

---------------------------------------------------------------------------
(* Bounds of the layout inputs. *)
MaxCols == 3
MaxRows == 2
MaxAisles == 1

(* Bounds of the inputs of compute_pair_weights: ranks 0..MaxRank, weight  *)
(* lists of up to MaxRank + 1 entries, up to MaxCustom custom triples.     *)
MaxRank == 2
MaxCustom == 1

(* Bounds of the inputs of solve_top_n_assignments: up to MaxPeople people *)
(* on a grid of up to MaxSeats seats, top_n up to MaxTopN.                 *)
MaxPeople == 2
MaxSeats == 2
MaxTopN == 3

(* Bounds of two further families of solver inputs: the default top_n on   *)
(* plain grids (diagonals, no aisle) of up to MaxTopNSeats seats, and      *)
(* top_n = 1 on any grid of up to MaxGridSeats seats.                      *)
MaxTopNSeats == 3
MaxGridSeats == 4

\* top_n = st.slider("生成方案数", 1, 10, 3, 1): the default
DefaultTopN == 3

Range(s) == {s[i] : i \in 1..Len(s)}

(* The values of the variables an operation does not use. *)
LayoutInputsIdle ==
    /\ n_cols = 0 /\ rows_per_col = <<>> /\ include_diag = FALSE
    /\ aisles = <<>>

LayoutIdle == LayoutInputsIdle /\ seats = <<>> /\ oriented_edges = <<>>

WeightInputsIdle ==
    /\ willing_pairs_by_rank = <<>> /\ unwilling_pairs_by_rank = <<>>
    /\ w_weights = <<>> /\ uw_weights = <<>> /\ custom_pairs = <<>>

\* solve_top_n_assignments not yet called
SolveNotStarted ==
    /\ m_terms = <<>> /\ model_built = FALSE /\ cuts = <<>> /\ k = 0
    /\ statuses = <<>> /\ results = <<>> /\ progress = <<>>
    /\ outcome = [kind |-> "none", value |-> <<>>]

SolveIdle == people = <<>> /\ top_n = 0 /\ SolveNotStarted

MetricsIdle ==
    /\ metrics_assignment = <<>> /\ positive_pairs = {} /\ metrics = <<>>
    /\ satisfaction_rate = 0

AppIdle ==
    /\ names = <<>> /\ preferences = <<>>
    /\ session_state = [results |-> <<>>, seats |-> <<>>, edges |-> <<>>,
                        pair_weights |-> {}, names |-> <<>>]
    /\ app_report = "none" /\ solver_call = <<>>

ExportIdle ==
    /\ export_assignment = <<>> /\ show_all_lines = FALSE
    /\ split_visualization = FALSE /\ export_result = [kind |-> "none"]

LauncherNotStarted ==
    [warned |-> FALSE, checks |-> 0, missing |-> {}, asked |-> FALSE,
     install |-> "none", imported |-> "none", started |-> FALSE,
     stopped |-> "none"]

LauncherIdle ==
    /\ sys_version_info = <<>> /\ installed = {} /\ operator_answer = <<>>
    /\ utils_importable = FALSE /\ launcher = LauncherNotStarted

GeneratorIdle == gen_seed = 0 /\ gen_call = <<>> /\ generator = <<>>

IngestIdle == loader = <<>> /\ manual = <<>> /\ sheet = <<>>

OthersIdle ==
    /\ MetricsIdle /\ AppIdle /\ ExportIdle /\ LauncherIdle /\ GeneratorIdle
    /\ IngestIdle

---------------------------------------------------------------------------
(* utils/seat_layout.py *)

\* The seats of column c, bottom row first (the inner loop of generate_seats).
ColSeats(c, rows) == [i \in 1..rows |-> <<c, i - 1>>]

RECURSIVE SeatsFrom(_, _, _)
SeatsFrom(nc, rpc, c) ==
    IF c >= nc THEN <<>>
    ELSE ColSeats(c, rpc[c + 1]) \o SeatsFrom(nc, rpc, c + 1)

\* A plausible slip: rows in the outer loop, columns in the inner one.
RECURSIVE SeatsRowMajorFrom(_, _, _, _)
SeatsRowMajorFrom(nc, rpc, r, maxr) ==
    IF r >= maxr THEN <<>>
    ELSE SelectSeq([i \in 1..nc |-> <<i - 1, r>>], LAMBDA s : r < rpc[s[1] + 1])
         \o SeatsRowMajorFrom(nc, rpc, r + 1, maxr)

generate_seats_rowmajor(nc, rpc) == SeatsRowMajorFrom(nc, rpc, 0, MaxRows + 1)

generate_seats(nc, rpc) == SeatsFrom(nc, rpc, 0)

\* A plausible slip: the aisle is recognised in the order given only.
has_aisle_between_ordered(as, col1, col2) ==
    \E i \in 1..Len(as) : col1 = as[i][1] /\ col2 = as[i][2]

has_aisle_between(as, col1, col2) ==
    \E i \in 1..Len(as) :
        \/ (col1 = as[i][1] /\ col2 = as[i][2])
        \/ (col1 = as[i][2] /\ col2 = as[i][1])

Both(a, b) == << <<a, b>>, <<b, a>> >>

\* Right neighbour, same row.
RightEdges(nc, rpc, as, c, r) ==
    IF c + 1 < nc /\ r < rpc[c + 2] /\ ~has_aisle_between(as, c, c + 1)
    THEN Both(<<c, r>>, <<c + 1, r>>) ELSE <<>>

\* Next row up, same column.
UpEdges(rpc, c, r) ==
    IF r + 1 < rpc[c + 1] THEN Both(<<c, r>>, <<c, r + 1>>) ELSE <<>>

\* A plausible slip: the row bound of the seat's own column is tested.
UpRightEdgesOwnColumn(nc, rpc, as, c, r) ==
    IF c + 1 < nc /\ r + 1 < rpc[c + 1] /\ ~has_aisle_between(as, c, c + 1)
    THEN Both(<<c, r>>, <<c + 1, r + 1>>) ELSE <<>>

\* Right column, one row up.
UpRightEdges(nc, rpc, as, c, r) ==
    IF c + 1 < nc /\ r + 1 < rpc[c + 2] /\ ~has_aisle_between(as, c, c + 1)
    THEN Both(<<c, r>>, <<c + 1, r + 1>>) ELSE <<>>

\* A plausible slip: the reverse orientation is not appended.
DownRightEdgesOneWay(nc, rpc, as, c, r) ==
    IF c + 1 < nc /\ r - 1 >= 0 /\ r - 1 < rpc[c + 2]
       /\ ~has_aisle_between(as, c, c + 1)
    THEN << <<<<c, r>>, <<c + 1, r - 1>>>> >> ELSE <<>>

\* Right column, one row down.
DownRightEdges(nc, rpc, as, c, r) ==
    IF c + 1 < nc /\ r - 1 >= 0 /\ r - 1 < rpc[c + 2]
       /\ ~has_aisle_between(as, c, c + 1)
    THEN Both(<<c, r>>, <<c + 1, r - 1>>) ELSE <<>>

\* The body of the double loop for the seat (c, r).
EdgesOfSeat(nc, rpc, diag, as, c, r) ==
    RightEdges(nc, rpc, as, c, r)
    \o UpEdges(rpc, c, r)
    \o (IF diag
        THEN UpRightEdges(nc, rpc, as, c, r) \o DownRightEdges(nc, rpc, as, c, r)
        ELSE <<>>)

RECURSIVE EdgesFrom(_, _, _, _, _, _)
EdgesFrom(nc, rpc, diag, as, c, r) ==
    IF c >= nc THEN <<>>
    ELSE IF r >= rpc[c + 1] THEN EdgesFrom(nc, rpc, diag, as, c + 1, 0)
    ELSE EdgesOfSeat(nc, rpc, diag, as, c, r)
         \o EdgesFrom(nc, rpc, diag, as, c, r + 1)

generate_adjacent_edges(nc, rpc, diag, as) == EdgesFrom(nc, rpc, diag, as, 0, 0)

---------------------------------------------------------------------------
(* Layout inputs: 1..MaxCols columns of 1..MaxRows rows, up to MaxAisles   *)
(* aisles, each between two different columns given in either order.       *)

SeqsUpTo(S, n) == UNION {[1..m -> S] : m \in 0..n}

\* rows_per_col[0] + ... + rows_per_col[c-1]
RECURSIVE SumRows(_, _)
SumRows(rpc, c) == IF c = 0 THEN 0 ELSE rpc[c] + SumRows(rpc, c - 1)

AislePairs(nc) == {p \in (0..nc - 1) \X (0..nc - 1) : p[1] # p[2]}

LayoutInputs ==
    /\ n_cols \in 1..MaxCols
    /\ rows_per_col \in [1..n_cols -> 1..MaxRows]
    /\ include_diag \in BOOLEAN
    /\ aisles \in SeqsUpTo(AislePairs(n_cols), MaxAisles)

InitLayout ==
    /\ pc = "layout_input"
    /\ LayoutInputs
    /\ seats = <<>>
    /\ oriented_edges = <<>>
    /\ WeightInputsIdle
    /\ pair_weights = {}
    /\ SolveIdle
    /\ OthersIdle

\* seats = generate_seats(n_cols, col_rows)
GenerateSeats ==
    /\ pc = "layout_input"
    /\ seats' = generate_seats(n_cols, rows_per_col)
    /\ pc' = "seats_done"
    /\ UNCHANGED <<n_cols, rows_per_col, include_diag, aisles, oriented_edges,
                   weightInputVars, otherVars, pair_weights, solveVars>>

\* edges = generate_adjacent_edges(n_cols, col_rows, include_diag, aisles)
GenerateAdjacentEdges ==
    /\ pc = "seats_done"
    /\ oriented_edges' =
           generate_adjacent_edges(n_cols, rows_per_col, include_diag, aisles)
    /\ pc' = "edges_done"
    /\ UNCHANGED <<n_cols, rows_per_col, include_diag, aisles, seats,
                   weightInputVars, otherVars, pair_weights, solveVars>>

NextLayout == GenerateSeats \/ GenerateAdjacentEdges

SpecLayout == InitLayout /\ [][NextLayout]_vars

---------------------------------------------------------------------------
(* utils/data_processor.py: compute_pair_weights.  The dict pair_weights   *)
(* is the set of its items <<key, value>>; a key is frozenset([a, b]),     *)
(* the set {a, b}.                                                         *)

\* pair_weights[key] = value
DictPut(d, key, value) == {e \in d : e[1] # key} \cup {<<key, value>>}

\* pair_weights[pair] = value for every pair of a set (the keys differ, so
\* the iteration order of the set does not matter)
DictPutAll(d, keys, value) ==
    {e \in d : e[1] \notin keys} \cup {<<key, value>> : key \in keys}

DictKeys(d) == {e[1] : e \in d}

\* Python's list[i]: a negative index counts from the end.
PyIndexOk(list, i) == -Len(list) <= i /\ i < Len(list)
PyIndex(list, i) == IF i >= 0 THEN list[i + 1] ELSE list[Len(list) + i + 1]

\* The willing loop, ranks in the order of the dict (ascending, the order in
\* which load_preferences_from_excel and the application insert them).
RECURSIVE ApplyWilling(_, _, _, _)
ApplyWilling(d, willing, w, rank) ==
    IF rank \notin DOMAIN willing THEN d
    ELSE IF rank <= Len(w)
         THEN ApplyWilling(DictPutAll(d, willing[rank], PyIndex(w, rank - 1)),
                           willing, w, rank + 1)
         ELSE ApplyWilling(d, willing, w, rank + 1)

\* w_weights[rank-1] raises IndexError: only rank 0 with an empty list.
WillingRaises(willing, w) ==
    \E rank \in DOMAIN willing :
        rank <= Len(w) /\ willing[rank] # {} /\ ~PyIndexOk(w, rank - 1)

\* A plausible slip: the unwilling loop bounds and indexes as the willing one.
RECURSIVE ApplyUnwillingAsWilling(_, _, _, _)
ApplyUnwillingAsWilling(d, unwilling, uw, rank) ==
    IF rank \notin DOMAIN unwilling THEN d
    ELSE IF rank <= Len(uw) /\ rank >= 1
         THEN ApplyUnwillingAsWilling(
                  DictPutAll(d, unwilling[rank], PyIndex(uw, rank - 1)),
                  unwilling, uw, rank + 1)
         ELSE ApplyUnwillingAsWilling(d, unwilling, uw, rank + 1)

\* The unwilling loop.
RECURSIVE ApplyUnwilling(_, _, _, _)
ApplyUnwilling(d, unwilling, uw, rank) ==
    IF rank \notin DOMAIN unwilling THEN d
    ELSE IF rank < Len(uw)
         THEN ApplyUnwilling(DictPutAll(d, unwilling[rank], PyIndex(uw, rank)),
                             unwilling, uw, rank + 1)
         ELSE ApplyUnwilling(d, unwilling, uw, rank + 1)

\* The custom loop, triples in list order.
RECURSIVE ApplyCustom(_, _, _)
ApplyCustom(d, custom, i) ==
    IF i > Len(custom) THEN d
    ELSE ApplyCustom(DictPut(d, {custom[i][1], custom[i][2]}, custom[i][3]),
                     custom, i + 1)

\* A plausible slip: the custom triples are merged first.
compute_pair_weights_custom_first(willing, unwilling, w, uw, custom) ==
    ApplyUnwilling(ApplyWilling(ApplyCustom({}, custom, 1), willing, w, 0),
                   unwilling, uw, 0)

compute_pair_weights(willing, unwilling, w, uw, custom) ==
    ApplyCustom(ApplyUnwilling(ApplyWilling({}, willing, w, 0), unwilling, uw, 0),
                custom, 1)

---------------------------------------------------------------------------
(* Inputs of compute_pair_weights.  Ranks 0..MaxRank (the spreadsheet      *)
(* loader numbers ranks from 1, the application files manual lines under   *)
(* rank 0 or 1); willing weights 5.0, 4.5, ... and unwilling weights -5.0, *)
(* -5.5, ... (the sliders' defaults); custom triples over WeightNames.     *)

WeightNames == {"A", "B"}
RankPairs == {{"A", "B"}}
CustomWeights == {4, -6}

DefaultLikeWeights(n) == [i \in 1..n |-> 10 - (i - 1)]
DefaultDislikeWeights(n) == [i \in 1..n |-> -10 - (i - 1)]

InitWeights ==
    /\ pc = "weights_input"
    /\ LayoutIdle
    /\ willing_pairs_by_rank \in [0..MaxRank -> SUBSET RankPairs]
    /\ unwilling_pairs_by_rank \in [0..MaxRank -> SUBSET RankPairs]
    /\ \E n \in 0..MaxRank + 1 : w_weights = DefaultLikeWeights(n)
    /\ \E n \in 0..MaxRank + 1 : uw_weights = DefaultDislikeWeights(n)
    /\ custom_pairs \in SeqsUpTo(WeightNames \X WeightNames \X CustomWeights,
                                 MaxCustom)
    /\ pair_weights = {}
    /\ SolveIdle
    /\ OthersIdle

\* pair_weights = compute_pair_weights(...), returning normally
ComputePairWeights ==
    /\ pc = "weights_input"
    /\ ~WillingRaises(willing_pairs_by_rank, w_weights)
    /\ pair_weights' = compute_pair_weights(willing_pairs_by_rank,
                           unwilling_pairs_by_rank, w_weights, uw_weights,
                           custom_pairs)
    /\ pc' = "weights_done"
    /\ UNCHANGED <<layoutVars, weightInputVars, otherVars, solveVars>>

\* compute_pair_weights raising IndexError
ComputePairWeightsRaises ==
    /\ pc = "weights_input"
    /\ WillingRaises(willing_pairs_by_rank, w_weights)
    /\ pc' = "weights_raised"
    /\ UNCHANGED <<layoutVars, weightInputVars, otherVars, pair_weights, solveVars>>

NextWeights == ComputePairWeights \/ ComputePairWeightsRaises

SpecWeights == InitWeights /\ [][NextWeights]_vars

---------------------------------------------------------------------------
(* utils/optimizer.py: solve_top_n_assignments.  Persons and seat indices  *)
(* are 0-based as in the source.  A value of the decision variables is a   *)
(* function x with x[i][s] in {0, 1}.                                      *)

\* name_to_idx = {p: i for i, p in enumerate(people)}: a name's last index
name_to_idx(ppl, a) ==
    CHOOSE i \in 0..Len(ppl) - 1 :
        ppl[i + 1] = a /\ \A j \in i + 1..Len(ppl) - 1 : ppl[j + 1] # a

\* seat_to_idx = {seat: idx for idx, seat in enumerate(seats)}
seat_to_idx(sts, seat) ==
    CHOOSE i \in 0..Len(sts) - 1 :
        sts[i + 1] = seat /\ \A j \in i + 1..Len(sts) - 1 : sts[j + 1] # seat

\* list(p)[1] raises IndexError for a key of one element; keys of weight
\* zero are filtered out before they are indexed.
WeightedPairsRaises(pw) == \E e \in pw : e[2] # 0 /\ Cardinality(e[1]) < 2

\* (list(p)[0], list(p)[1]): the two names of a key, in some order
TwoOf(key) == CHOOSE ab \in key \X key : ab[1] # ab[2]

\* weighted_pairs: the items of non-zero weight (abs(w) > 1e-9)
weighted_pairs(pw) ==
    {<<TwoOf(e[1])[1], TwoOf(e[1])[2], e[2]>> : e \in {d \in pw : d[2] # 0}}

\* weighted_idx_pairs: both names known, indices in ascending order
weighted_idx_pairs(ppl, pw) ==
    {LET ia == name_to_idx(ppl, t[1])
         ib == name_to_idx(ppl, t[2])
     IN  IF ia > ib THEN <<ib, ia, t[3]>> ELSE <<ia, ib, t[3]>> :
     t \in {u \in weighted_pairs(pw) :
               /\ u[1] \in Range(ppl) /\ u[2] \in Range(ppl)
               /\ name_to_idx(ppl, u[1]) # name_to_idx(ppl, u[2])}}

\* The list in some order (the order of the dict; the objective is a sum).
RECURSIVE SetToSeq(_)
SetToSeq(S) ==
    IF S = {} THEN <<>>
    ELSE LET e == CHOOSE e \in S : TRUE IN <<e>> \o SetToSeq(S \ {e})

\* The inner loop over oriented_edges for one weighted pair: one product
\* variable m = x[i,s] * x[j,t] with coefficient w per edge (seat s, seat t).
RECURSIVE EdgeTerms(_, _, _, _)
EdgeTerms(pairw, sts, edges, e) ==
    IF e > Len(edges) THEN <<>>
    ELSE (IF edges[e][1] \in Range(sts) /\ edges[e][2] \in Range(sts)
          THEN << <<pairw[1], pairw[2], seat_to_idx(sts, edges[e][1]),
                    seat_to_idx(sts, edges[e][2]), pairw[3]>> >>
          ELSE <<>>)
         \o EdgeTerms(pairw, sts, edges, e + 1)

RECURSIVE PairTerms(_, _, _, _)
PairTerms(wip, sts, edges, n) ==
    IF n > Len(wip) THEN <<>>
    ELSE EdgeTerms(wip[n], sts, edges, 1) \o PairTerms(wip, sts, edges, n + 1)

\* A plausible slip: each undirected edge is used in one orientation only,
\* from the lower seat index to the higher.
BuildTermsForwardEdges(ppl, sts, pw, edges) ==
    LET forward(ed) == /\ ed[1] \in Range(sts) /\ ed[2] \in Range(sts)
                       /\ seat_to_idx(sts, ed[1]) < seat_to_idx(sts, ed[2])
    IN  PairTerms(SetToSeq(weighted_idx_pairs(ppl, pw)), sts,
                  SelectSeq(edges, forward), 1)

\* m_vars and m_coeffs
BuildTerms(ppl, sts, pw, edges) ==
    PairTerms(SetToSeq(weighted_idx_pairs(ppl, pw)), sts, edges, 1)

\* sum(c * v for c, v in zip(m_coeffs, m_vars)) under x
RECURSIVE SumTerms(_, _, _)
SumTerms(terms, x, n) ==
    IF n > Len(terms) THEN 0
    ELSE terms[n][5] * (x[terms[n][1]][terms[n][3]] * x[terms[n][2]][terms[n][4]])
         + SumTerms(terms, x, n + 1)

ObjectiveOf(terms, x) == SumTerms(terms, x, 1)

\* f[0] + ... + f[n]
RECURSIVE SumUpTo(_, _)
SumUpTo(f, n) == IF n < 0 THEN 0 ELSE f[n] + SumUpTo(f, n - 1)

\* sum(x[i, s] for s in range(S)) == 1: the rows a person can have
PersonRows(S) == {row \in [0..S - 1 -> {0, 1}] : SumUpTo(row, S - 1) = 1}

\* A plausible slip: the sum runs over the seats of one person again.
SeatConstraintOverSeats(P, S, x) ==
    \A i \in 0..P - 1 : SumUpTo(x[i], S - 1) <= 1

\* sum(x[i, s] for i in range(P)) <= 1 for every seat s
SeatConstraint(P, S, x) ==
    \A s \in 0..S - 1 : SumUpTo([i \in 0..P - 1 |-> x[i][s]], P - 1) <= 1

CutConstraintLoose(P, x, cut) ==
    SumUpTo([i \in 0..P - 1 |-> x[i][cut[i]]], P - 1) <= P

\* sum(x[i, assign_idx[i]] for i in range(P)) <= P - 1
CutConstraint(P, x, cut) ==
    SumUpTo([i \in 0..P - 1 |-> x[i][cut[i]]], P - 1) <= P - 1

\* The feasible values of x under the model with its cuts.
Solutions(P, S, cs) ==
    {x \in [0..P - 1 -> PersonRows(S)] :
        /\ SeatConstraint(P, S, x)
        /\ \A c \in 1..Len(cs) : CutConstraint(P, x, cs[c])}

StatusOk(status) == status \in {"OPTIMAL", "FEASIBLE"}

\* model.Maximize(...): the greatest value of the objective
Optimum(values) == CHOOSE v \in values : \A u \in values : u <= v

AnySolutions(terms, sols) == sols

\* the solutions the solver can return with status OPTIMAL
OptimalSolutions(terms, sols) ==
    LET values == {ObjectiveOf(terms, y) : y \in sols}
        optimum == Optimum(values)
    IN  {y \in sols : ObjectiveOf(terms, y) = optimum}

\* What solver.Solve(model) can answer: an optimal solution with status
\* OPTIMAL (any solution when the model has no objective); any solution with
\* status FEASIBLE when the time limit ends the search for the optimum;
\* INFEASIBLE when there is no solution; UNKNOWN when the time limit ends
\* the search before anything is found.
SolveOutcomes(terms, P, S, cs) ==
    LET sols == Solutions(P, S, cs)
    IN  {<<"OPTIMAL", x>> : x \in OptimalSolutions(terms, sols)}
        \cup (IF terms # <<>> THEN {<<"FEASIBLE", x>> : x \in sols} ELSE {})
        \cup (IF sols = {} THEN {<<"INFEASIBLE", <<>>>>} ELSE {})
        \cup {<<"UNKNOWN", <<>>>>}

\* assign_idx[i] = the first s with solver.Value(x[i, s]) == 1
ExtractAssignIdx(P, S, x) ==
    [i \in 0..P - 1 |->
        CHOOSE s \in 0..S - 1 : x[i][s] = 1 /\ \A u \in 0..s - 1 : x[i][u] # 1]

\* assignment = {people[i]: assign_idx[i] for i in range(P)}
AssignmentOf(ppl, assign_idx) ==
    [name \in Range(ppl) |-> assign_idx[name_to_idx(ppl, name)]]

\* A plausible slip: only the latest cut is kept in the model.
AddCutReplacing(cs, assign_idx) == <<assign_idx>>

\* model.Add(... <= P - 1): the cut joins the constraints of the model
AddCut(cs, assign_idx) == Append(cs, assign_idx)

\* A plausible slip: the test is off by one.
TooManyPeopleOffByOne(P, S) == P > S + 1

\* if P > S: raise ValueError
TooManyPeople(P, S) == P > S

\* A plausible slip: continue instead of break.
AfterFailedSolveContinue(kk) == [pc |-> "loop", k |-> kk + 1]

\* break
AfterFailedSolve(kk) == [pc |-> "after_loop", k |-> kk]

Ratio(num, den) == <<num, den>>

IterationProgressFromOne(kk, n) == Ratio(5 * n + 4 * (kk + 1), 10 * n)

\* 0.5 + 0.4 * k / top_n
IterationProgress(kk, n) == Ratio(5 * n + 4 * kk, 10 * n)

---------------------------------------------------------------------------
(* Inputs of solve_top_n_assignments: the seats and edges of a layout, the *)
(* first names of SolveNames, one of a few pair-weight maps with keys of   *)
(* two names, top_n.                                                       *)

Layouts(maxSeats) ==
    UNION {{[nc |-> nc, rpc |-> rpc, diag |-> d, as |-> a] :
               rpc \in {r \in [1..nc -> 1..MaxRows] : SumRows(r, nc) <= maxSeats},
               d \in BOOLEAN,
               a \in SeqsUpTo(AislePairs(nc), MaxAisles)} : nc \in 1..MaxCols}

Grids(maxSeats) ==
    {<<generate_seats(l.nc, l.rpc),
       generate_adjacent_edges(l.nc, l.rpc, l.diag, l.as)>> : l \in Layouts(maxSeats)}

SolveNames == <<"A", "B", "C", "D", "E", "F">>

SolveWeightMaps ==
    { {},
      {<<{"A", "B"}, -10>>, <<{"A", "C"}, 0>>},
      {<<{"A", "B"}, 10>>, <<{"B", "C"}, -11>>} }

PlainGrids(maxSeats) ==
    {<<generate_seats(l.nc, l.rpc),
       generate_adjacent_edges(l.nc, l.rpc, l.diag, l.as)>> :
        l \in {m \in Layouts(maxSeats) : m.diag /\ m.as = <<>>}}

\* the maps in which some pair likes each other
LikeWeightMaps == {m \in SolveWeightMaps : \E e \in m : e[2] > 0}

SolveInputs(maxPeople, grids, maps, topNs) ==
    /\ \E g \in grids : seats = g[1] /\ oriented_edges = g[2]
    /\ \E n \in 0..maxPeople : people = SubSeq(SolveNames, 1, n)
    /\ pair_weights \in maps
    /\ top_n \in topNs

InitSolve ==
    /\ pc = "solve_input"
    /\ LayoutInputsIdle
    /\ WeightInputsIdle
    /\ SolveInputs(MaxPeople, Grids(MaxSeats), SolveWeightMaps, 0..MaxTopN)
    /\ SolveNotStarted
    /\ OthersIdle

\* the default number of plans on plain grids
InitTopN ==
    /\ pc = "solve_input"
    /\ LayoutInputsIdle
    /\ WeightInputsIdle
    /\ SolveInputs(MaxPeople, PlainGrids(MaxTopNSeats), LikeWeightMaps,
                   {DefaultTopN})
    /\ SolveNotStarted
    /\ OthersIdle

\* one plan on any grid
InitObjective ==
    /\ pc = "solve_input"
    /\ LayoutInputsIdle
    /\ WeightInputsIdle
    /\ SolveInputs(MaxPeople, Grids(MaxGridSeats), SolveWeightMaps, {1})
    /\ SolveNotStarted
    /\ OthersIdle

\* lines 51-57: weighted_pairs, name_to_idx, P, S, the first callback
SolveStart ==
    /\ pc = "solve_input"
    /\ ~WeightedPairsRaises(pair_weights)
    /\ progress' = Append(progress, Ratio(0, 10))
    /\ pc' = "solve_check"
    /\ UNCHANGED <<layoutVars, weightInputVars, otherVars, pair_weights, people, top_n,
                   m_terms, model_built, cuts, k, statuses, results, outcome>>

\* lines 67-68
SolveRaisesValueError ==
    /\ pc = "solve_check"
    /\ TooManyPeople(Len(people), Len(seats))
    /\ outcome' = [kind |-> "ValueError", value |-> <<>>]
    /\ pc' = "solve_raised"
    /\ UNCHANGED <<layoutVars, weightInputVars, otherVars, pair_weights, people, top_n,
                   m_terms, model_built, cuts, k, statuses, results, progress>>

\* lines 70-140: the model, its objective, the solver
SolveBuildModel ==
    /\ pc = "solve_check"
    /\ ~TooManyPeople(Len(people), Len(seats))
    /\ m_terms' = BuildTerms(people, seats, pair_weights, oriented_edges)
    /\ model_built' = TRUE
    /\ progress' = progress \o <<Ratio(1, 10), Ratio(2, 10), Ratio(3, 10),
                                 Ratio(4, 10)>>
    /\ k' = 0
    /\ pc' = "loop"
    /\ UNCHANGED <<layoutVars, weightInputVars, otherVars, pair_weights, people, top_n,
                   cuts, statuses, results, outcome>>

\* lines 142-193, an iteration whose solve finds a solution
SolveIterationFound ==
    /\ pc = "loop"
    /\ k < top_n
    /\ \E o \in SolveOutcomes(m_terms, Len(people), Len(seats), cuts) :
           /\ StatusOk(o[1])
           /\ LET assign_idx == ExtractAssignIdx(Len(people), Len(seats), o[2])
                  obj_value == IF m_terms # <<>> THEN ObjectiveOf(m_terms, o[2])
                               ELSE 0
              IN  /\ cuts' = AddCut(cuts, assign_idx)
                  /\ results' = Append(results,
                         [assignment |-> AssignmentOf(people, assign_idx),
                          objective |-> obj_value,
                          status |-> o[1]])
           /\ statuses' = Append(statuses, o[1])
    /\ progress' = Append(progress, IterationProgress(k, top_n))
    /\ k' = k + 1
    /\ UNCHANGED <<pc, layoutVars, weightInputVars, otherVars, pair_weights, people, top_n,
                   m_terms, model_built, outcome>>

\* lines 142-161, an iteration whose solve finds nothing
SolveIterationStops ==
    /\ pc = "loop"
    /\ k < top_n
    /\ \E o \in SolveOutcomes(m_terms, Len(people), Len(seats), cuts) :
           /\ ~StatusOk(o[1])
           /\ statuses' = Append(statuses, o[1])
    /\ progress' = Append(progress, IterationProgress(k, top_n))
    /\ pc' = AfterFailedSolve(k).pc
    /\ k' = AfterFailedSolve(k).k
    /\ UNCHANGED <<layoutVars, weightInputVars, otherVars, pair_weights, people, top_n,
                   m_terms, model_built, cuts, results, outcome>>

\* lines 195-198, after the loop ran out or was left
SolveReturns ==
    /\ (pc = "loop" /\ k >= top_n) \/ pc = "after_loop"
    /\ progress' = Append(progress, Ratio(10, 10))
    /\ outcome' = [kind |-> "returned", value |-> results]
    /\ pc' = "solve_done"
    /\ UNCHANGED <<layoutVars, weightInputVars, otherVars, pair_weights, people, top_n,
                   m_terms, model_built, cuts, k, statuses, results>>

NextSolve ==
    \/ SolveStart
    \/ SolveRaisesValueError
    \/ SolveBuildModel
    \/ SolveIterationFound
    \/ SolveIterationStops
    \/ SolveReturns

SpecSolve == InitSolve /\ [][NextSolve]_vars

SpecTopN == InitTopN /\ [][NextSolve]_vars

SpecObjective == InitObjective /\ [][NextSolve]_vars

\* the maps in which a pair dislikes each other and none likes each other
DislikeWeightMaps ==
    {m \in SolveWeightMaps :
        (\E e \in m : e[2] < 0) /\ (\A e \in m : e[2] <= 0)}

\* the default number of plans on plain grids, for people who dislike each
\* other
InitOrder ==
    /\ pc = "solve_input"
    /\ LayoutInputsIdle
    /\ WeightInputsIdle
    /\ SolveInputs(MaxPeople, PlainGrids(MaxTopNSeats), DislikeWeightMaps,
                   {DefaultTopN})
    /\ SolveNotStarted
    /\ OthersIdle

SpecOrder == InitOrder /\ [][NextSolve]_vars

\* validate_assignment(assignment, people, seats)[0]
validate_assignment(assignment, ppl, sts) ==
    /\ DOMAIN assignment = Range(ppl)
    /\ \A person \in DOMAIN assignment :
           0 <= assignment[person] /\ assignment[person] < Len(sts)
    /\ \A p1, p2 \in DOMAIN assignment :
           assignment[p1] = assignment[p2] => p1 = p2

---------------------------------------------------------------------------
(* Helpers of the properties. *)

Abs(x) == IF x < 0 THEN -x ELSE x

SeatExists(s) == s[1] \in 0..n_cols - 1 /\ s[2] \in 0..rows_per_col[s[1] + 1] - 1

AisleDeclared(a, b) == \E i \in 1..Len(aisles) : aisles[i] = <<a, b>>

---------------------------------------------------------------------------
\* C6: the edge list returned by generate_adjacent_edges is symmetric:
\* whenever (A,B) is in it, (B,A) is in it too.
C6_EdgesSymmetric ==
    pc = "edges_done" =>
        \A e \in Range(oriented_edges) : <<e[2], e[1]>> \in Range(oriented_edges)

C6_Witness ==
    /\ pc = "edges_done"
    /\ include_diag
    /\ Len(aisles) = 1
    /\ \E e \in Range(oriented_edges) : e[1][1] # e[2][1] /\ e[1][2] > e[2][2]
                                        /\ e[1][1] < e[2][1]

\* C7: with an aisle declared between columns a and b (either order) no edge
\* has one endpoint in column a and the other in column b, and every pair of
\* vertically neighbouring seats of one column keeps both its edges.
C7_AisleBlocksOnlyCrossing ==
    pc = "edges_done" =>
        /\ \A i \in 1..Len(aisles) : \A e \in Range(oriented_edges) :
               ~(e[1][1] = aisles[i][1] /\ e[2][1] = aisles[i][2])
               /\ ~(e[1][1] = aisles[i][2] /\ e[2][1] = aisles[i][1])
        /\ \A c \in 0..n_cols - 1 : \A r \in 0..rows_per_col[c + 1] - 2 :
               /\ <<<<c, r>>, <<c, r + 1>>>> \in Range(oriented_edges)
               /\ <<<<c, r + 1>>, <<c, r>>>> \in Range(oriented_edges)

\* An aisle given right column first, between two columns that would
\* otherwise be joined, next to a column of two rows.
C7_Witness ==
    /\ pc = "edges_done"
    /\ \E i \in 1..Len(aisles) :
           /\ aisles[i][1] = aisles[i][2] + 1
           /\ rows_per_col[aisles[i][1] + 1] = 2
    /\ oriented_edges # <<>>

\* C8: without diagonals every edge joins seats at Manhattan distance 1; with
\* diagonals and no aisle between columns c and c+1, existing seats (c,r) and
\* (c+1,r+1), and (c,r) and (c+1,r-1), are joined in both orientations.
C8_DiagonalEdges ==
    pc = "edges_done" =>
        /\ ~include_diag =>
               \A e \in Range(oriented_edges) :
                   Abs(e[1][1] - e[2][1]) + Abs(e[1][2] - e[2][2]) = 1
        /\ include_diag =>
               \A s \in Range(seats) : \A d \in {-1, 1} :
                   LET t == <<s[1] + 1, s[2] + d>> IN
                   (t \in Range(seats) /\ ~AisleDeclared(s[1], s[1] + 1)
                                      /\ ~AisleDeclared(s[1] + 1, s[1]))
                   => /\ <<s, t>> \in Range(oriented_edges)
                      /\ <<t, s>> \in Range(oriented_edges)

\* Diagonals on, two neighbouring columns of different height, no aisle
\* between them, and a diagonal edge between them.
C8_Witness ==
    /\ pc = "edges_done"
    /\ include_diag
    /\ \E c \in 0..n_cols - 2 :
           /\ rows_per_col[c + 1] # rows_per_col[c + 2]
           /\ ~AisleDeclared(c, c + 1) /\ ~AisleDeclared(c + 1, c)
           /\ \E e \in Range(oriented_edges) :
                  e[1][1] = c /\ e[2][1] = c + 1 /\ e[1][2] # e[2][2]

\* C9: generate_seats lists the seats column by column without repetition:
\* sum(rows_per_col) entries, seat (c,r) at index rows_per_col[0] + ... +
\* rows_per_col[c-1] + r.
C9_SeatsColumnMajor ==
    pc \in {"seats_done", "edges_done"} =>
        /\ Len(seats) = SumRows(rows_per_col, n_cols)
        /\ \A c \in 0..n_cols - 1 : \A r \in 0..rows_per_col[c + 1] - 1 :
               seats[SumRows(rows_per_col, c) + r + 1] = <<c, r>>
        /\ \A i, j \in 1..Len(seats) : seats[i] = seats[j] => i = j

C9_Witness ==
    /\ pc = "seats_done"
    /\ n_cols = 3
    /\ rows_per_col = <<2, 1, 2>>
    /\ seats = << <<0, 0>>, <<0, 1>>, <<1, 0>>, <<2, 0>>, <<2, 1>> >>

---------------------------------------------------------------------------
(* Properties of compute_pair_weights. *)

HasCustom(p) ==
    \E i \in 1..Len(custom_pairs) : {custom_pairs[i][1], custom_pairs[i][2]} = p

LastCustom(p) ==
    CHOOSE i \in 1..Len(custom_pairs) :
        /\ {custom_pairs[i][1], custom_pairs[i][2]} = p
        /\ \A j \in i + 1..Len(custom_pairs) :
               {custom_pairs[j][1], custom_pairs[j][2]} # p

\* the ranks at which the unwilling (willing) loop writes a weight for p
UnwillingWrites(p) ==
    {r \in DOMAIN unwilling_pairs_by_rank :
        p \in unwilling_pairs_by_rank[r] /\ r < Len(uw_weights)}

WillingWrites(p) ==
    {r \in DOMAIN willing_pairs_by_rank :
        p \in willing_pairs_by_rank[r] /\ r <= Len(w_weights)}

\* C10: the merged map holds at most one weight per unordered pair; a pair
\* with a custom triple has the weight of its (last) custom triple, however
\* the triple orders the two names; a pair without one that the unwilling
\* loop writes has an unwilling weight, also when it is listed as willing;
\* a pair only the willing loop writes has a willing weight.
C10_LastWriterWins ==
    pc = "weights_done" =>
        /\ \A e1, e2 \in pair_weights : e1[1] = e2[1] => e1[2] = e2[2]
        /\ \A i \in 1..Len(custom_pairs) :
               LET p == {custom_pairs[i][1], custom_pairs[i][2]} IN
               <<p, custom_pairs[LastCustom(p)][3]>> \in pair_weights
        /\ \A p \in RankPairs :
               /\ (~HasCustom(p) /\ UnwillingWrites(p) # {}) =>
                      \E e \in pair_weights :
                          /\ e[1] = p
                          /\ e[2] \in Range(uw_weights)
                          /\ e[2] \notin Range(w_weights)
               /\ (~HasCustom(p) /\ UnwillingWrites(p) = {}
                                 /\ WillingWrites(p) # {}) =>
                      \E e \in pair_weights :
                          e[1] = p /\ e[2] \in Range(w_weights)

\* The pair is written by all three loops: willing rank 1, unwilling rank 1
\* and a custom triple naming the pair in the other order.
C10_Witness ==
    /\ pc = "weights_done"
    /\ {"A", "B"} \in willing_pairs_by_rank[1] /\ Len(w_weights) >= 1
    /\ {"A", "B"} \in unwilling_pairs_by_rank[1] /\ Len(uw_weights) >= 2
    /\ custom_pairs = << <<"B", "A", 4>> >>
    /\ pair_weights = {<<{"A", "B"}, 4>>}

\* the greatest element of a non-empty set of integers
MaxOf(S) == CHOOSE x \in S : \A y \in S : y <= x

\* C11: a pair at willing rank r gets w_weights[r-1] exactly when
\* r <= len(w_weights), a pair at unwilling rank r gets uw_weights[r]
\* exactly when r < len(uw_weights) (the last such rank decides, unwilling
\* after willing), and a pair no rank within these bounds holds and no custom
\* triple names has no entry.
C11_RankBounds ==
    pc = "weights_done" =>
        \A p \in RankPairs :
            ~HasCustom(p) =>
                LET uwr == UnwillingWrites(p)
                    wr == WillingWrites(p)
                IN  /\ uwr # {} =>
                           <<p, PyIndex(uw_weights, MaxOf(uwr))>> \in pair_weights
                    /\ (uwr = {} /\ wr # {}) =>
                           <<p, PyIndex(w_weights, MaxOf(wr) - 1)>> \in pair_weights
                    /\ (uwr = {} /\ wr = {}) => p \notin DictKeys(pair_weights)

\* Two weights of each kind; the pair is unwilling at rank 2 only, which is
\* out of bounds, and willing at rank 2, which is within: it stays liked.
C11_Witness ==
    /\ pc = "weights_done"
    /\ custom_pairs = <<>>
    /\ Len(w_weights) = 2 /\ Len(uw_weights) = 2
    /\ willing_pairs_by_rank = [r \in 0..MaxRank |->
                                   IF r = 2 THEN {{"A", "B"}} ELSE {}]
    /\ unwilling_pairs_by_rank = [r \in 0..MaxRank |->
                                     IF r = 2 THEN {{"A", "B"}} ELSE {}]
    /\ pair_weights = {<<{"A", "B"}, 9>>}

\* K unwilling ranks 1..K loaded and K unwilling weights configured
RanksMatchWeights ==
    /\ unwilling_pairs_by_rank[0] = {}
    /\ \A r \in DOMAIN unwilling_pairs_by_rank :
           r > Len(uw_weights) => unwilling_pairs_by_rank[r] = {}

\* C12: with K unwilling ranks and K unwilling weights every unwilling pair
\* at a rank r of 1..K that no later writer overrides is in the map with the
\* weight configured for rank r.
C12_UnwillingOwnRankWeight ==
    (pc = "weights_done" /\ RanksMatchWeights) =>
        \A r \in (1..Len(uw_weights)) \cap DOMAIN unwilling_pairs_by_rank :
            \A p \in unwilling_pairs_by_rank[r] :
                (/\ ~HasCustom(p)
                 /\ \A q \in DOMAIN unwilling_pairs_by_rank :
                        q > r => p \notin unwilling_pairs_by_rank[q])
                => <<p, uw_weights[r]>> \in pair_weights

---------------------------------------------------------------------------
(* Properties of solve_top_n_assignments. *)

\* every plan recorded so far and every plan returned
Plans == Range(results) \cup Range(outcome.value)

\* C1: with P distinct people and S >= P seats every plan's assignment has
\* exactly the people as its domain, maps each person to a seat index in
\* 0..S-1 and no two people to the same index, so validate_assignment
\* accepts it, whichever solution the solver picks.
C1_PlansSeatEveryoneOnce ==
    \A r \in Plans :
        /\ DOMAIN r.assignment = Range(people)
        /\ \A a \in Range(people) : r.assignment[a] \in 0..Len(seats) - 1
        /\ \A a, b \in Range(people) :
               a # b => r.assignment[a] # r.assignment[b]
        /\ validate_assignment(r.assignment, people, seats)

\* Two people on two seats, both plans returned.
C1_Witness ==
    /\ pc = "solve_done"
    /\ Len(people) = 2 /\ Len(seats) = 2
    /\ Len(outcome.value) = 2

\* C2: any two plans of one call, consecutive or not, differ in the seat of
\* at least one person.
C2_PlansPairwiseDistinct ==
    \A i, j \in 1..Len(results) :
        i # j => \E a \in Range(people) :
                     results[i].assignment[a] # results[j].assignment[a]

\* Three plans, the first and third differ.
C2_Witness ==
    /\ pc = "solve_done"
    /\ Len(outcome.value) = 3
    /\ Len(people) = 2
    /\ outcome.value[1].assignment # outcome.value[3].assignment

\* C3: with more people than seats the call raises ValueError; no model is
\* built, the solver is never called and nothing is returned.
C3_TooManyPeopleRaises ==
    Len(people) > Len(seats) =>
        /\ pc \in {"solve_input", "solve_check", "solve_raised"}
        /\ ~model_built
        /\ statuses = <<>>
        /\ results = <<>>
        /\ outcome.kind \in {"none", "ValueError"}
        /\ pc = "solve_raised" <=> outcome.kind = "ValueError"

C3_Witness ==
    /\ Len(people) = 2 /\ Len(seats) = 1
    /\ pc = "solve_raised"
    /\ outcome.kind = "ValueError"

\* C4: the first solve that is neither optimal nor feasible is the last
\* solver call; nothing is raised and the call returns exactly the plans of
\* the earlier iterations, in solve order.
C4_FailedSolveEndsLoop ==
    /\ \A i \in 1..Len(statuses) - 1 : StatusOk(statuses[i])
    /\ (statuses # <<>> /\ ~StatusOk(statuses[Len(statuses)])) =>
           /\ pc \in {"after_loop", "solve_done"}
           /\ outcome.kind \in {"none", "returned"}
           /\ Len(results) = Len(statuses) - 1
    /\ pc = "solve_done" =>
           /\ outcome.kind = "returned"
           /\ outcome.value = results
           /\ \A i \in 1..Len(results) : results[i].status = statuses[i]
           /\ Len(results) = Cardinality({i \in 1..Len(statuses) :
                                             StatusOk(statuses[i])})

\* The second solve fails with iterations left; the one plan is returned.
C4_Witness ==
    /\ pc = "solve_done"
    /\ Len(statuses) = 2 /\ top_n = 3
    /\ ~StatusOk(statuses[2])
    /\ Len(outcome.value) = 1

\* seats s and t are joined by an edge
Joined(s, t) == <<s, t>> \in Range(oriented_edges)
                \/ <<t, s>> \in Range(oriented_edges)

\* the sum of the values of a set of (key, value) items
RECURSIVE SumValues(_)
SumValues(items) ==
    IF items = {} THEN 0
    ELSE LET e == CHOOSE e \in items : TRUE
         IN  e[2] + SumValues(items \ {e})

\* the weight of the pairs of pair_weights whose two members are people and
\* sit on joined seats under the assignment
AdjacentWeight(assignment) ==
    LET counted == {e \in pair_weights :
                       /\ e[2] # 0
                       /\ e[1] \subseteq Range(people)
                       /\ \E a, b \in e[1] :
                              /\ a # b
                              /\ Joined(seats[assignment[a] + 1],
                                        seats[assignment[b] + 1])}
    IN  SumValues(counted)

\* C5: on the seats and edges of a layout the objective of an assignment is
\* the sum of the weights of the unordered pairs (non-zero weight, both
\* members among the people) seated on two seats joined by an edge, each
\* such pair counted once.
C5_ObjectiveCountsAdjacentPairsOnce ==
    \A r \in Plans : r.objective = AdjacentWeight(r.assignment)

\* A and B on diagonal neighbours of a 2x2 block, the higher index first.
C5_Witness ==
    /\ Len(results) = 1
    /\ Len(people) = 2
    /\ results[1].objective = 10
    /\ seats[results[1].assignment["A"] + 1] = <<1, 0>>
    /\ seats[results[1].assignment["B"] + 1] = <<0, 1>>

---------------------------------------------------------------------------
(* utils/optimizer.py: compute_satisfaction_metrics, and the satisfaction  *)
(* rate the application derives from its result.  A rate that the source   *)
(* computes as a float n / d * 100 is kept as the pair <<100 * n, d>>.     *)

\* seats.index(seat): the first index of the seat
SeatsIndex(sts, seat) ==
    CHOOSE i \in 0..Len(sts) - 1 :
        sts[i + 1] = seat /\ \A j \in 0..i - 1 : sts[j + 1] # seat

\* adjacent_seats: frozenset([idx1, idx2]) for every edge whose two seats
\* are in the seat list (seats.index raises ValueError otherwise)
adjacent_seats(sts, edges) ==
    {{SeatsIndex(sts, e[1]), SeatsIndex(sts, e[2])} :
        e \in {d \in Range(edges) :
                  d[1] \in Range(sts) /\ d[2] \in Range(sts)}}

\* person1, person2 = list(pair) raises ValueError unless the pair has
\* exactly two members
UnpackRaises(pairs) == \E pair \in pairs : Cardinality(pair) # 2

\* the pairs whose two members are assigned and sit on adjacent seats
SatisfiedOf(a, pairs, adj) ==
    {pair \in pairs : pair \subseteq DOMAIN a /\ {a[p] : p \in pair} \in adj}

\* A plausible slip: two people are counted for every satisfied pair.
LenSatisfiedPeoplePerPair(sat) == 2 * Cardinality(sat)

\* len(satisfied_people), the set the loop adds both members to
LenSatisfiedPeople(sat) == Cardinality(UNION sat)

\* whether the first-preference branch runs: the dict is non-empty and has
\* rank 1
HasFirstRank(willing) == DOMAIN willing # {} /\ 1 \in DOMAIN willing

\* first_preference_rate
FirstPreferenceRate(a, adj, willing) ==
    IF HasFirstRank(willing) /\ willing[1] # {}
    THEN Ratio(100 * Cardinality(SatisfiedOf(a, willing[1], adj)),
               Cardinality(willing[1]))
    ELSE Ratio(0, 1)

compute_satisfaction_metrics(a, sts, pairs, edges, willing) ==
    LET adj == adjacent_seats(sts, edges)
        sat == SatisfiedOf(a, pairs, adj)
    IN  <<LenSatisfiedPeople(sat), Cardinality(UNION pairs), Cardinality(sat),
          FirstPreferenceRate(a, adj, willing)>>

\* Python's round(num / den) for num >= 0 < den: halves go to the even side
PyRound(num, den) ==
    LET q == num \div den
        r == num % den
    IN  IF 2 * r < den THEN q
        ELSE IF 2 * r > den THEN q + 1
        ELSE IF q % 2 = 0 THEN q ELSE q + 1

\* round((n_satisfied / n_total_people_with_pref * 100) if ... > 0 else 0)
SatisfactionRateOf(m) == IF m[2] > 0 THEN PyRound(100 * m[1], m[2]) ELSE 0

---------------------------------------------------------------------------
(* Inputs of compute_satisfaction_metrics: the seats and edges of a layout, *)
(* any map from some of the names to seat indices, any set of pairs (one    *)
(* of them names a single person), rank 1 absent, empty or holding the     *)
(* pairs.                                                                  *)

MetricNames == {"A", "B", "C"}
MetricPairs == {{"A", "B"}, {"A", "C"}, {"B", "C"}, {"A"}}

InitMetrics ==
    /\ pc = "metrics_input"
    /\ LayoutInputsIdle
    /\ \E g \in Grids(MaxSeats) : seats = g[1] /\ oriented_edges = g[2]
    /\ \E D \in SUBSET MetricNames :
           metrics_assignment \in [D -> 0..Len(seats) - 1]
    /\ positive_pairs \in SUBSET MetricPairs
    /\ willing_pairs_by_rank \in {<<>>, <<{}>>, <<positive_pairs>>}
    /\ unwilling_pairs_by_rank = <<>>
    /\ w_weights = <<>> /\ uw_weights = <<>> /\ custom_pairs = <<>>
    /\ pair_weights = {}
    /\ SolveIdle
    /\ metrics = <<>>
    /\ satisfaction_rate = 0
    /\ AppIdle
    /\ ExportIdle
    /\ LauncherIdle
    /\ GeneratorIdle
    /\ IngestIdle

\* metrics = compute_satisfaction_metrics(...) and the rate of app.py
ComputeSatisfactionMetrics ==
    /\ pc = "metrics_input"
    /\ ~UnpackRaises(positive_pairs)
    /\ ~(HasFirstRank(willing_pairs_by_rank)
         /\ UnpackRaises(willing_pairs_by_rank[1]))
    /\ metrics' = compute_satisfaction_metrics(metrics_assignment, seats,
                      positive_pairs, oriented_edges, willing_pairs_by_rank)
    /\ satisfaction_rate' = SatisfactionRateOf(metrics')
    /\ pc' = "metrics_done"
    /\ UNCHANGED <<layoutVars, weightInputVars, pair_weights, solveVars,
                   metrics_assignment, positive_pairs, exceptMetrics>>

\* compute_satisfaction_metrics raising ValueError on a pair it cannot unpack
ComputeSatisfactionMetricsRaises ==
    /\ pc = "metrics_input"
    /\ \/ UnpackRaises(positive_pairs)
       \/ (HasFirstRank(willing_pairs_by_rank)
           /\ UnpackRaises(willing_pairs_by_rank[1]))
    /\ pc' = "metrics_raised"
    /\ UNCHANGED <<layoutVars, weightInputVars, pair_weights, solveVars,
                   metricsVars, exceptMetrics>>

NextMetrics == ComputeSatisfactionMetrics \/ ComputeSatisfactionMetricsRaises

SpecMetrics == InitMetrics /\ [][NextMetrics]_vars

\* person p sits next to person q
SitAdjacent(p, q) ==
    /\ p \in DOMAIN metrics_assignment /\ q \in DOMAIN metrics_assignment
    /\ Joined(seats[metrics_assignment[p] + 1], seats[metrics_assignment[q] + 1])

\* C13: the tuple holds the number of distinct people in some positive pair
\* whose two members are assigned and sit on seats joined by an edge, the
\* number of distinct people in any positive pair, and the number of such
\* adjacent pairs; the first never exceeds the second, the derived rate is
\* within 0..100 and is 0 without positive pairs.
C13_SatisfactionCounts ==
    pc = "metrics_done" =>
        /\ metrics[1] = Cardinality({p \in MetricNames :
               \E pair \in positive_pairs :
                   p \in pair /\ \E q \in pair : q # p /\ SitAdjacent(p, q)})
        /\ metrics[2] = Cardinality({p \in MetricNames :
               \E pair \in positive_pairs : p \in pair})
        /\ metrics[3] = Cardinality({pair \in positive_pairs :
               \E p, q \in pair : p # q /\ SitAdjacent(p, q)})
        /\ metrics[1] <= metrics[2]
        /\ 0 <= satisfaction_rate /\ satisfaction_rate <= 100
        /\ positive_pairs = {} => satisfaction_rate = 0

\* A likes B and C, sits next to both on a shared seat pair: three people
\* satisfied by two pairs.
C13_Witness ==
    /\ pc = "metrics_done"
    /\ positive_pairs = {{"A", "B"}, {"A", "C"}}
    /\ metrics[1] = 3 /\ metrics[2] = 3 /\ metrics[3] = 2
    /\ satisfaction_rate = 100

---------------------------------------------------------------------------
(* app.py: the results tab.  Every action is one run of the script: the    *)
(* operator changes the inputs of the sidebar, or clicks the compute       *)
(* button.  No spreadsheet of preferences is loaded, so the ranks of the   *)
(* session are empty and the manual lines are filed under one rank;        *)
(* w_weights and uw_weights are like_weights and dislike_weights.          *)

\* st.slider("生成方案数", 1, 10, 3, 1): the least value
MinTopN == 1

\* solve_top_n_assignments returning: the lists it can return, one plan per
\* successful solve, ended by the first failed solve or by top_n
RECURSIVE SolvePlans(_, _, _, _, _, _)
SolvePlans(terms, ppl, S, cs, kk, n) ==
    IF kk >= n THEN {<<>>}
    ELSE {<<>>} \cup
         UNION {LET assign_idx == ExtractAssignIdx(Len(ppl), S, o[2])
                    plan == [assignment |-> AssignmentOf(ppl, assign_idx),
                             objective |-> IF terms # <<>>
                                           THEN ObjectiveOf(terms, o[2]) ELSE 0,
                             status |-> o[1]]
                IN  {<<plan>> \o rest :
                        rest \in SolvePlans(terms, ppl, S, AddCut(cs, assign_idx),
                                            kk + 1, n)} :
                o \in {q \in SolveOutcomes(terms, Len(ppl), S, cs) :
                          StatusOk(q[1])}}

solve_top_n_assignments(ppl, sts, pw, edges, n) ==
    SolvePlans(BuildTerms(ppl, sts, pw, edges), ppl, Len(sts), <<>>, 0, n)

\* solve_top_n_assignments raising: IndexError at line 51, ValueError at 68
SolveRaises(ppl, sts, pw) ==
    WeightedPairsRaises(pw) \/ TooManyPeople(Len(ppl), Len(sts))

\* A plausible slip: the shortage test is off by one.
SeatShortageOffByOne(nm, rows) == Len(nm) > SumRows(rows, Len(rows)) + 1

\* len(names) > sum(col_rows)
SeatShortage(nm, rows) == Len(nm) > SumRows(rows, Len(rows))

\* what tab2 shows in a run without a click
Tab2Report(nm, rows) ==
    IF nm = <<>> THEN "no_names"
    ELSE IF SeatShortage(nm, rows) THEN "shortage"
    ELSE "offered"

\* whether the run reaches st.button
ButtonOffered == names # <<>> /\ ~SeatShortage(names, rows_per_col)

\* the pairs of the manual lines of one kind
ManualPairs(kind) ==
    {{p[1], p[3]} : p \in {q \in Range(preferences) : q[2] = kind}}

\* level = 0 if len(weights) == 1 else 1; current_willing[level].add(pair)
current_willing ==
    [r \in 0..1 |->
        IF r = (IF Len(w_weights) = 1 THEN 0 ELSE 1)
        THEN ManualPairs("like") ELSE {}]

current_unwilling ==
    [r \in 0..1 |->
        IF r = (IF Len(uw_weights) = 1 THEN 0 ELSE 1)
        THEN ManualPairs("dislike") ELSE {}]

\* pair_weights of the trigger (compute_pair_weights without custom_pairs)
AppPairWeights ==
    IF preferences = <<>> THEN {}
    ELSE compute_pair_weights(current_willing, current_unwilling,
                              w_weights, uw_weights, <<>>)

AppSeats == generate_seats(n_cols, rows_per_col)
AppEdges == generate_adjacent_edges(n_cols, rows_per_col, include_diag, aisles)

\* lines 644-647, with the results given
StoredSession(res) ==
    [results |-> res, seats |-> AppSeats, edges |-> AppEdges,
     pair_weights |-> AppPairWeights, names |-> names]

\* A plausible slip: the trigger clears the results before it computes.
ResultsAfterRaiseCleared(old) == <<>>

\* the except branch leaves session_state.results alone
ResultsAfterRaise(old) == old

---------------------------------------------------------------------------
(* Inputs of the application: a name list, a plain layout (diagonals, no   *)
(* aisle), no manual line, one that likes another person or one that names *)
(* the same person twice; one weight of each kind; the least top_n.        *)

AppNames == {SubSeq(SolveNames, 1, n) : n \in 0..MaxPeople}
AppLayouts == {l \in Layouts(MaxSeats) : l.diag /\ l.as = <<>>}
AppPreferences ==
    {<<>>, << <<"A", "like", "B">> >>, << <<"A", "like", "A">> >>}

InitApp ==
    /\ pc = "app"
    /\ \E l \in AppLayouts :
           /\ n_cols = l.nc /\ rows_per_col = l.rpc
           /\ include_diag = l.diag /\ aisles = l.as
    /\ seats = <<>> /\ oriented_edges = <<>>
    /\ willing_pairs_by_rank = <<>> /\ unwilling_pairs_by_rank = <<>>
    /\ w_weights = DefaultLikeWeights(1) /\ uw_weights = DefaultDislikeWeights(1)
    /\ custom_pairs = <<>>
    /\ pair_weights = {}
    /\ people = <<>> /\ top_n = MinTopN /\ SolveNotStarted
    /\ MetricsIdle
    /\ ExportIdle
    /\ LauncherIdle
    /\ GeneratorIdle
    /\ IngestIdle
    /\ names \in AppNames
    /\ preferences \in AppPreferences
    /\ session_state = [results |-> <<>>, seats |-> <<>>, edges |-> <<>>,
                        pair_weights |-> {}, names |-> <<>>]
    /\ app_report = Tab2Report(names, rows_per_col)
    /\ solver_call = <<>>

\* a run after the operator loaded another name list
AppChangeNames ==
    /\ pc = "app"
    /\ \E nm \in AppNames :
           /\ names' = nm
           /\ app_report' = Tab2Report(nm, rows_per_col)
    /\ UNCHANGED <<pc, layoutVars, weightInputVars, pair_weights, solveVars,
                   preferences, session_state, solver_call, exceptApp>>

\* a run after the operator changed the layout
AppChangeLayout ==
    /\ pc = "app"
    /\ \E l \in AppLayouts :
           /\ n_cols' = l.nc /\ rows_per_col' = l.rpc
           /\ include_diag' = l.diag /\ aisles' = l.as
           /\ app_report' = Tab2Report(names, l.rpc)
    /\ UNCHANGED <<pc, seats, oriented_edges, weightInputVars, pair_weights,
                   solveVars, names, preferences, session_state, solver_call,
                   exceptApp>>

\* a run after the operator changed the manual lines
AppChangePreferences ==
    /\ pc = "app"
    /\ \E pf \in AppPreferences : preferences' = pf
    /\ app_report' = Tab2Report(names, rows_per_col)
    /\ UNCHANGED <<pc, layoutVars, weightInputVars, pair_weights, solveVars,
                   names, session_state, solver_call, exceptApp>>

\* lines 597-695: the click, the solve returns at least one plan
AppComputeStores ==
    /\ pc = "app"
    /\ ButtonOffered
    /\ ~SolveRaises(names, AppSeats, AppPairWeights)
    /\ \E res \in solve_top_n_assignments(names, AppSeats, AppPairWeights,
                                          AppEdges, top_n) :
           /\ res # <<>>
           /\ session_state' = StoredSession(res)
    /\ solver_call' = <<Len(names), Len(AppSeats)>>
    /\ app_report' = "success"
    /\ UNCHANGED <<pc, layoutVars, weightInputVars, pair_weights, solveVars,
                   names, preferences, exceptApp>>

\* lines 597-697: the click, the solve returns no plan
AppComputeNoPlan ==
    /\ pc = "app"
    /\ ButtonOffered
    /\ ~SolveRaises(names, AppSeats, AppPairWeights)
    /\ <<>> \in solve_top_n_assignments(names, AppSeats, AppPairWeights,
                                        AppEdges, top_n)
    /\ session_state' = StoredSession(session_state.results)
    /\ solver_call' = <<Len(names), Len(AppSeats)>>
    /\ app_report' = "no_plan"
    /\ UNCHANGED <<pc, layoutVars, weightInputVars, pair_weights, solveVars,
                   names, preferences, exceptApp>>

\* lines 597-702: the click, the solve raises and the except branch reports
AppComputeRaises ==
    /\ pc = "app"
    /\ ButtonOffered
    /\ SolveRaises(names, AppSeats, AppPairWeights)
    /\ session_state' = StoredSession(ResultsAfterRaise(session_state.results))
    /\ solver_call' = <<Len(names), Len(AppSeats)>>
    /\ app_report' = "error"
    /\ UNCHANGED <<pc, layoutVars, weightInputVars, pair_weights, solveVars,
                   names, preferences, exceptApp>>

NextApp ==
    \/ AppChangeNames
    \/ AppChangeLayout
    \/ AppChangePreferences
    \/ AppComputeStores
    \/ AppComputeNoPlan
    \/ AppComputeRaises

SpecApp == InitApp /\ [][NextApp]_vars

\* C14: with more names than seats the run shows the shortage and offers no
\* compute button, and solve_top_n_assignments is never called with more
\* people than seats.
C14_NoSolveOnShortage ==
    /\ Len(names) > SumRows(rows_per_col, n_cols) =>
           app_report = "shortage" /\ ~ENABLED AppComputeStores
           /\ ~ENABLED AppComputeNoPlan /\ ~ENABLED AppComputeRaises
    /\ solver_call # <<>> => solver_call[1] <= solver_call[2]

\* A shortage after an earlier solve for one person on two seats.
C14_Witness ==
    /\ Len(names) = 2 /\ SumRows(rows_per_col, n_cols) = 1
    /\ app_report = "shortage"
    /\ solver_call = <<1, 2>>
    /\ session_state.results # <<>>

\* C15: a compute trigger that raises reports the error and leaves
\* session_state.results exactly as it was before the trigger.
C15_RaiseKeepsResults ==
    [][app_report' = "error" =>
           session_state'.results = session_state.results]_vars

\* The trigger raised on a line naming one person twice; the results of an
\* earlier trigger for one person are still held.
C15_Witness ==
    /\ app_report = "error"
    /\ session_state.results # <<>>
    /\ Len(session_state.names) = 2
    /\ DOMAIN session_state.results[1].assignment = {"A"}


(***************************************************************************)
(* export_assignment_to_image (utils/exporter.py).  The picture is         *)
(* abstracted to what it holds: the kind of value returned ("png" bytes or *)
(* a "zip" archive), the names of the archive's entries, and the           *)
(* (pair, weight) items drawn as positive and as negative lines.  The      *)
(* assignments are injective, as those of the solver are, so that the      *)
(* first person found on a seat is the only one.                           *)
(***************************************************************************)

\* 3.0 in half units: the magnitude a weight must exceed to be drawn
DrawThreshold == 6

\* the people the drawing loop finds on a seat of the layout
person_to_pos(a, sts) == {name \in DOMAIN a : a[name] \in 0..Len(sts) - 1}

are_seats_adjacent(a, sts, person1, person2) ==
    /\ person1 \in DOMAIN a /\ person2 \in DOMAIN a
    /\ a[person1] \in 0..Len(sts) - 1 /\ a[person2] \in 0..Len(sts) - 1
    /\ LET s1 == sts[a[person1] + 1]
           s2 == sts[a[person2] + 1]
           dc == Abs(s1[1] - s2[1])
           dr == Abs(s1[2] - s2[2])
       IN  (dc <= 1 /\ dr <= 1) /\ (dc + dr > 0)

\* both members of a key of two people sit next to each other
KeyAdjacent(a, sts, key) ==
    \E person1, person2 \in key :
        person1 # person2 /\ are_seats_adjacent(a, sts, person1, person2)

PositiveWeightInclusive(w) == w >= DrawThreshold

\* w > 3.0
PositiveWeight(w) == w > DrawThreshold

\* w < -3.0
NegativeWeight(w) == w < -DrawThreshold

\* list(p)[1] raises IndexError: a key of one person, of a drawable weight,
\* whose person is on a seat (the tests before it are evaluated first)
ExportRaises(pw, a, sts) ==
    \E e \in pw :
        /\ Cardinality(e[1]) = 1
        /\ PositiveWeight(e[2]) \/ NegativeWeight(e[2])
        /\ e[1] \subseteq person_to_pos(a, sts)

pos_pairs(pw, a, sts, showAll) ==
    {e \in pw : /\ PositiveWeight(e[2])
                /\ e[1] \subseteq person_to_pos(a, sts)
                /\ showAll \/ KeyAdjacent(a, sts, e[1])}

neg_pairs(pw, a, sts, showAll) ==
    {e \in pw : /\ NegativeWeight(e[2])
                /\ e[1] \subseteq person_to_pos(a, sts)
                /\ showAll \/ ~KeyAdjacent(a, sts, e[1])}

PositiveEntry == "positive_relationships.png"
NegativeEntry == "negative_relationships.png"

create_split_visualization(a, sts, pos, neg) ==
    LET filtered_pos_pairs == {e \in pos : KeyAdjacent(a, sts, e[1])}
        filtered_neg_pairs == {e \in neg : ~KeyAdjacent(a, sts, e[1])}
    IN  [kind |-> "zip",
         entries |-> (IF filtered_pos_pairs # {} THEN {PositiveEntry} ELSE {})
                       \cup (IF filtered_neg_pairs # {} THEN {NegativeEntry}
                             ELSE {}),
         pos_drawn |-> filtered_pos_pairs,
         neg_drawn |-> filtered_neg_pairs]

\* an absent map (None) and an empty one take the same branch of
\* "if pair_weights:"; both are the empty set here
export_assignment_to_image(a, sts, pw, showAll, split) ==
    IF pw = {}
    THEN [kind |-> "png", entries |-> {}, pos_drawn |-> {}, neg_drawn |-> {}]
    ELSE IF split
         THEN create_split_visualization(a, sts,
                  pos_pairs(pw, a, sts, showAll), neg_pairs(pw, a, sts, showAll))
         ELSE [kind |-> "png", entries |-> {},
               pos_drawn |-> pos_pairs(pw, a, sts, showAll),
               neg_drawn |-> neg_pairs(pw, a, sts, showAll)]

(* Inputs: the seats of a plain layout, an injective map from some of the  *)
(* names to seat indices, a weight for none, one or both of two pairs      *)
(* (3.0 and 5.0 of either sign), possibly a key of one person, both flags. *)

ExportNames == {"A", "B", "C"}
ExportWeights == {-10, -DrawThreshold, DrawThreshold, 10}

ExportWeightMaps ==
    {ab \cup ac \cup one :
        ab \in {{}} \cup {{<<{"A", "B"}, w>>} : w \in ExportWeights},
        ac \in {{}} \cup {{<<{"A", "C"}, w>>} : w \in ExportWeights},
        one \in {{}, {<<{"B"}, 10>>}}}

ExportAssignments(sts) ==
    UNION {{a \in [D -> 0..Len(sts) - 1] :
               \A p, q \in D : p # q => a[p] # a[q]} : D \in SUBSET ExportNames}

InitExport ==
    /\ pc = "export_input"
    /\ \E l \in {m \in Layouts(MaxTopNSeats) : m.diag /\ m.as = <<>>} :
           /\ n_cols = l.nc /\ rows_per_col = l.rpc
           /\ seats = generate_seats(l.nc, l.rpc)
    /\ include_diag = TRUE /\ aisles = <<>>
    /\ oriented_edges = <<>>
    /\ WeightInputsIdle
    /\ pair_weights \in ExportWeightMaps
    /\ SolveIdle
    /\ MetricsIdle
    /\ AppIdle
    /\ LauncherIdle
    /\ GeneratorIdle
    /\ IngestIdle
    /\ export_assignment \in ExportAssignments(seats)
    /\ show_all_lines \in BOOLEAN
    /\ split_visualization \in BOOLEAN
    /\ export_result = [kind |-> "none"]

ExportAssignmentToImage ==
    /\ pc = "export_input"
    /\ ~ExportRaises(pair_weights, export_assignment, seats)
    /\ export_result' = export_assignment_to_image(export_assignment, seats,
                            pair_weights, show_all_lines, split_visualization)
    /\ pc' = "export_done"
    /\ UNCHANGED <<layoutVars, weightInputVars, pair_weights, solveVars,
                   export_assignment, show_all_lines, split_visualization,
                   exceptExport>>

ExportAssignmentToImageRaises ==
    /\ pc = "export_input"
    /\ pair_weights # {}
    /\ ExportRaises(pair_weights, export_assignment, seats)
    /\ pc' = "export_raised"
    /\ UNCHANGED <<layoutVars, weightInputVars, pair_weights, solveVars,
                   exportVars, exceptExport>>

NextExport == ExportAssignmentToImage \/ ExportAssignmentToImageRaises

SpecExport == InitExport /\ [][NextExport]_vars

\* C16: a pair is drawn as a positive line only if its weight is above 3.0
\* and as a negative line only if it is below -3.0; a pair whose weight lies
\* in -3.0..3.0 is never drawn, whether all lines or only the satisfied ones
\* are shown.
C16_DrawnBeyondThreshold ==
    pc = "export_done" =>
        /\ \A e \in export_result.pos_drawn :
               e \in pair_weights /\ e[2] > DrawThreshold
        /\ \A e \in export_result.neg_drawn :
               e \in pair_weights /\ e[2] < -DrawThreshold
        /\ \A e \in pair_weights :
               (e[2] >= -DrawThreshold /\ e[2] <= DrawThreshold) =>
                   e \notin export_result.pos_drawn \cup export_result.neg_drawn

\* All lines shown: A and B are both seated, their weight is exactly 3.0 and
\* they are not drawn; A and C with weight 5.0 are.
C16_Witness ==
    /\ pc = "export_done"
    /\ show_all_lines /\ ~split_visualization
    /\ <<{"A", "B"}, DrawThreshold>> \in pair_weights
    /\ {"A", "B"} \subseteq person_to_pos(export_assignment, seats)
    /\ export_result.pos_drawn = {<<{"A", "C"}, 10>>}
    /\ export_result.neg_drawn = {}

\* C17: with split visualization requested the value returned is an archive
\* holding both positive_relationships.png and negative_relationships.png,
\* whatever the assignment and the pair weights.
C17_SplitArchiveHasBoth ==
    (pc = "export_done" /\ split_visualization) =>
        /\ export_result.kind = "zip"
        /\ {PositiveEntry, NegativeEntry} \subseteq export_result.entries


(***************************************************************************)
(* The launcher (start_app.py).  main() is one sequential process; pc is   *)
(* its position and each action is one of its steps.  The environment is   *)
(* the runtime version, the set of required packages that import, what the *)
(* operator types and whether the utils package imports.  launcher records *)
(* what main() has done: the warning, the number of dependency checks and  *)
(* the result of the last one, whether it asked, how the installation      *)
(* went, how the import went, whether the application was started and why  *)
(* main() returned False ("none" if it did not).                           *)
(***************************************************************************)

required_packages ==
    {"streamlit", "pandas", "numpy", "matplotlib", "ortools", "openpyxl", "PIL"}

MinVersion == <<3, 7>>

\* tuple comparison sys.version_info < (3, 7)
VersionLess(v, m) == v[1] < m[1] \/ (v[1] = m[1] /\ v[2] < m[2])

check_python_version(v) == ~VersionLess(v, MinVersion)

check_dependencies(inst) == required_packages \ inst

Lower(c) == IF c = "Y" THEN "y" ELSE IF c = "N" THEN "n" ELSE c

\* input(...).lower().startswith('y')
AnswersYes(answer) == Len(answer) >= 1 /\ Lower(answer[1]) = "y"

NothingMissingAlways(miss) == TRUE

\* "if missing:" is not taken
NothingMissing(miss) == miss = {}

Versions == {<<2, 7>>, <<3, 6>>, <<3, 7>>, <<3, 12>>}

Answers == {<<>>, <<"y">>, <<"Y", "e", "s">>, <<"n">>, <<"n", "y">>}

InitLauncher ==
    /\ pc = "main"
    /\ LayoutInputsIdle /\ LayoutIdle
    /\ WeightInputsIdle
    /\ pair_weights = {}
    /\ SolveIdle
    /\ MetricsIdle
    /\ AppIdle
    /\ ExportIdle
    /\ GeneratorIdle
    /\ IngestIdle
    /\ sys_version_info \in Versions
    /\ installed \in SUBSET required_packages
    /\ operator_answer \in Answers
    /\ utils_importable \in BOOLEAN
    /\ launcher = LauncherNotStarted

LauncherFrame ==
    UNCHANGED <<layoutVars, weightInputVars, pair_weights, solveVars,
                exceptLauncher, sys_version_info, operator_answer,
                utils_importable>>

\* main(): "if not check_python_version(): return False"
MainCheckVersion ==
    /\ pc = "main"
    /\ IF check_python_version(sys_version_info)
       THEN pc' = "check_dependencies" /\ UNCHANGED launcher
       ELSE /\ pc' = "returned"
            /\ launcher' = [launcher EXCEPT !.warned = TRUE,
                                            !.stopped = "version"]
    /\ UNCHANGED installed
    /\ LauncherFrame

\* main(): missing = check_dependencies(), first time
MainCheckDependencies ==
    /\ pc = "check_dependencies"
    /\ LET missing == check_dependencies(installed)
       IN  /\ launcher' = [launcher EXCEPT !.checks = @ + 1,
                                           !.missing = missing]
           /\ pc' = IF NothingMissing(missing) THEN "import_utils" ELSE "ask"
    /\ UNCHANGED installed
    /\ LauncherFrame

\* main(): the operator is asked whether to install
MainAsk ==
    /\ pc = "ask"
    /\ IF AnswersYes(operator_answer)
       THEN /\ pc' = "install"
            /\ launcher' = [launcher EXCEPT !.asked = TRUE]
       ELSE /\ pc' = "returned"
            /\ launcher' = [launcher EXCEPT !.asked = TRUE,
                                            !.stopped = "declined"]
    /\ UNCHANGED installed
    /\ LauncherFrame

\* install_missing_packages(missing): pip succeeds or fails, and in either
\* case may have made any of the missing packages importable
MainInstall ==
    /\ pc = "install"
    /\ \E ok \in BOOLEAN, got \in SUBSET launcher.missing :
           /\ installed' = installed \cup got
           /\ IF ok
              THEN /\ pc' = "recheck"
                   /\ launcher' = [launcher EXCEPT !.install = "ok"]
              ELSE /\ pc' = "returned"
                   /\ launcher' = [launcher EXCEPT !.install = "failed",
                                       !.stopped = "install_failed"]
    /\ LauncherFrame

\* main(): missing = check_dependencies() after the installation
MainRecheck ==
    /\ pc = "recheck"
    /\ LET missing == check_dependencies(installed)
       IN  IF NothingMissing(missing)
           THEN /\ pc' = "import_utils"
                /\ launcher' = [launcher EXCEPT !.checks = @ + 1,
                                                !.missing = missing]
           ELSE /\ pc' = "returned"
                /\ launcher' = [launcher EXCEPT !.checks = @ + 1,
                                    !.missing = missing,
                                    !.stopped = "still_missing"]
    /\ UNCHANGED installed
    /\ LauncherFrame

\* main(): from utils import load_names_from_excel
MainImportUtils ==
    /\ pc = "import_utils"
    /\ IF utils_importable
       THEN /\ pc' = "launch"
            /\ launcher' = [launcher EXCEPT !.imported = "ok"]
       ELSE /\ pc' = "returned"
            /\ launcher' = [launcher EXCEPT !.imported = "failed",
                                            !.stopped = "import_failed"]
    /\ UNCHANGED installed
    /\ LauncherFrame

\* main(): subprocess.run([..., 'streamlit', 'run', 'app.py']) runs the
\* application, or raises before anything is started
MainLaunch ==
    /\ pc = "launch"
    /\ \/ launcher' = [launcher EXCEPT !.started = TRUE]
       \/ launcher' = [launcher EXCEPT !.stopped = "launch_failed"]
    /\ pc' = "returned"
    /\ UNCHANGED installed
    /\ LauncherFrame

NextLauncher ==
    \/ MainCheckVersion
    \/ MainCheckDependencies
    \/ MainAsk
    \/ MainInstall
    \/ MainRecheck
    \/ MainImportUtils
    \/ MainLaunch

SpecLauncher == InitLauncher /\ [][NextLauncher]_vars

\* C18: a runtime version below the minimum only produces a warning: when
\* main() has returned, the dependency check has taken place, and if
\* nothing was missing and utils imports, the launch was attempted.
C18_OldVersionOnlyWarns ==
    (pc = "returned" /\ VersionLess(sys_version_info, MinVersion)) =>
        /\ launcher.warned
        /\ launcher.checks >= 1
        /\ (required_packages \subseteq installed /\ utils_importable) =>
               (launcher.started \/ launcher.stopped = "launch_failed")

\* C19: the application is started only after the last dependency check
\* reported nothing missing and the import of utils succeeded; once the
\* operator has declined, the installation has failed or the re-check still
\* reports a missing package, the application has not been started.
C19_StartOnlyAfterChecks ==
    /\ launcher.started =>
           /\ launcher.checks >= 1 /\ launcher.missing = {}
           /\ launcher.imported = "ok"
    /\ launcher.stopped \in {"declined", "install_failed", "still_missing"} =>
           ~launcher.started /\ pc = "returned"

\* The application was started after the operator agreed to an installation
\* that made every package importable.
C19_Witness ==
    /\ launcher.started
    /\ launcher.asked /\ launcher.install = "ok"
    /\ launcher.checks = 2


(***************************************************************************)
(* TestDataGenerator (test_data_generator.py).  Two runs of the generator  *)
(* are given the same seed and the same calls: generate_names(count), then *)
(* generate_preferences_data on the names it returned.  The module random  *)
(* is a generator whose whole state follows from the seed; it is modelled  *)
(* by a congruential generator of full period.  The order in which a set   *)
(* of strings is iterated follows from the strings' hashes, which Python   *)
(* randomises per process: each run has its own hash seed, that selects    *)
(* one of two orders.  Fractions are in percent.                           *)
(***************************************************************************)

RngModulus == 16

\* random.seed(seed)
Seeded(seed) == seed % RngModulus

\* the state of random after one more draw
Draw(s) == (s * 5 + 3) % RngModulus

\* a number below n, from the state a draw left
RandBelow(s, n) == (s * n) \div RngModulus

\* random.choice(seq)
Choice(seq, s) == seq[RandBelow(s, Len(seq)) + 1]

\* random.random() < percent / 100
RandomLess(s, percent) == s * 100 < percent * RngModulus

\* random.uniform(lo, hi)
Uniform(lo, hi, s) == lo + ((hi - lo) * s) \div RngModulus

\* random.randint(1, b)
RandInt1(b, s) == 1 + RandBelow(s, b)

surnames == <<"W", "L">>
given_names == <<"a", "b", "c">>

AllNames ==
    [i \in 1..(Len(surnames) * Len(given_names)) |->
        surnames[((i - 1) \div Len(given_names)) + 1]
            \o given_names[((i - 1) % Len(given_names)) + 1]]

NameRank(name) == CHOOSE i \in DOMAIN AllNames : AllNames[i] = name

HashSeeds == {0, 1}

\* where the hash of a name puts it among the others, under a hash seed
HashRank(hs, name) == IF hs = 0 THEN NameRank(name) ELSE 0 - NameRank(name)

RECURSIVE ListOfSet(_, _)
\* list(names) of a set
ListOfSet(S, hs) ==
    IF S = {} THEN <<>>
    ELSE LET first == CHOOSE x \in S :
                          \A y \in S : HashRank(hs, x) <= HashRank(hs, y)
         IN  <<first>> \o ListOfSet(S \ {first}, hs)

Min2(a, b) == IF a <= b THEN a ELSE b
Max2(a, b) == IF a >= b THEN a ELSE b

\* pairs[:-remove_count]
DropLast(pairs, remove_count) ==
    IF remove_count >= Len(pairs) THEN <<>>
    ELSE SubSeq(pairs, 1, Len(pairs) - remove_count)

RECURSIVE WillingLoop(_, _, _, _, _)
\* the loop "for _ in range(max_pairs)" of a willing level
WillingLoop(nms, todo, used_names, pairs, s) ==
    LET available_names == SelectSeq(nms, LAMBDA n : n \notin used_names)
    IN  IF todo = 0 \/ Len(available_names) < 2
        THEN [pairs |-> pairs, rng |-> s]
        ELSE LET s1 == Draw(s)
                 person1 == Choice(available_names, s1)
                 rest == SelectSeq(available_names, LAMBDA n : n # person1)
                 s2 == Draw(s1)
                 person2 == Choice(rest, s2)
                 s3 == Draw(s2)
             IN  WillingLoop(nms, todo - 1,
                     IF RandomLess(s3, 70)
                     THEN used_names \cup {person1, person2} ELSE used_names,
                     Append(pairs, <<person1, person2>>), s3)

\* the partial filling at the end of a level: with the given chance the
\* last pairs are removed
PartialFill(pairs, s, percent, part) ==
    LET s1 == Draw(s)
    IN  IF RandomLess(s1, percent)
        THEN LET s2 == Draw(s1)
             IN  [pairs |-> DropLast(pairs,
                                RandInt1(Max2(1, Len(pairs) \div part), s2)),
                  rng |-> s2]
        ELSE [pairs |-> pairs, rng |-> s1]

WillingLevel(nms, s, fill_rate_range) ==
    LET s1 == Draw(s)
        fill_rate == Uniform(fill_rate_range[1], fill_rate_range[2], s1)
        max_pairs == Min2(Len(nms) \div 2, (Len(nms) * fill_rate) \div 100)
        looped == WillingLoop(nms, max_pairs, {}, <<>>, s1)
    IN  PartialFill(looped.pairs, looped.rng, 30, 3)

RECURSIVE UnwillingLoop(_, _, _, _)
UnwillingLoop(nms, todo, pairs, s) ==
    IF todo = 0 THEN [pairs |-> pairs, rng |-> s]
    ELSE LET s1 == Draw(s)
             person1 == Choice(nms, s1)
             s2 == Draw(s1)
             person2 == Choice(SelectSeq(nms, LAMBDA n : n # person1), s2)
         IN  UnwillingLoop(nms, todo - 1,
                           Append(pairs, <<person1, person2>>), s2)

UnwillingLevel(nms, s) ==
    LET s1 == Draw(s)
        fill_rate == Uniform(10, 40, s1)
        max_pairs == Min2(Len(nms) \div 3, (Len(nms) * fill_rate) \div 100)
        looped == UnwillingLoop(nms, max_pairs, <<>>, s1)
    IN  PartialFill(looped.pairs, looped.rng, 40, 2)

RECURSIVE WillingLevels(_, _, _, _, _)
WillingLevels(nms, levels, fill_rate_range, data, s) ==
    IF levels = 0 THEN [data |-> data, rng |-> s]
    ELSE LET level == WillingLevel(nms, s, fill_rate_range)
         IN  WillingLevels(nms, levels - 1, fill_rate_range,
                           Append(data, level.pairs), level.rng)

RECURSIVE UnwillingLevels(_, _, _, _)
UnwillingLevels(nms, levels, data, s) ==
    IF levels = 0 THEN [data |-> data, rng |-> s]
    ELSE LET level == UnwillingLevel(nms, s)
         IN  UnwillingLevels(nms, levels - 1,
                             Append(data, level.pairs), level.rng)

\* the pairs written per rank, and the state random is left in
generate_preferences_data(nms, wlevels, uwlevels, fill_rate_range, s) ==
    LET willing == WillingLevels(nms, wlevels, fill_rate_range, <<>>, s)
        unwilling == UnwillingLevels(nms, uwlevels, <<>>, willing.rng)
    IN  [willing_data |-> willing.data, unwilling_data |-> unwilling.data,
         rng |-> unwilling.rng]

\* the default range of generate_preferences_data
DefaultFillRateRange == <<30, 80>>

MaxSeed == 15
MaxCount == 3
MaxLevels == 2

Runs == {1, 2}

InitGenerator ==
    /\ pc = "generator"
    /\ LayoutInputsIdle /\ LayoutIdle
    /\ WeightInputsIdle
    /\ pair_weights = {}
    /\ SolveIdle
    /\ MetricsIdle
    /\ AppIdle
    /\ ExportIdle
    /\ LauncherIdle
    /\ IngestIdle
    /\ gen_seed \in 0..MaxSeed
    /\ \E count \in 0..MaxCount, wl \in 0..MaxLevels, ul \in 0..MaxLevels :
           gen_call = [count |-> count, willing_levels |-> wl,
                       unwilling_levels |-> ul]
    /\ \E hs \in [Runs -> HashSeeds] :
           generator = [r \in Runs |->
               [hash_seed |-> hs[r], rng |-> Seeded(gen_seed),
                step |-> "generate_names", names_set |-> {}, names |-> <<>>,
                willing_data |-> <<>>, unwilling_data |-> <<>>]]

GeneratorFrame ==
    UNCHANGED <<pc, layoutVars, weightInputVars, pair_weights, solveVars,
                exceptGenerator, gen_seed, gen_call>>

NamesLoopContinuesAtCount(n, count) == n <= count

\* while len(names) < count
NamesLoopContinues(n, count) == n < count

\* one turn of the loop "while len(names) < count" of generate_names
GenerateNamesLoop(r) ==
    /\ generator[r].step = "generate_names"
    /\ NamesLoopContinues(Cardinality(generator[r].names_set), gen_call.count)
    /\ LET s1 == Draw(generator[r].rng)
           surname == Choice(surnames, s1)
           s2 == Draw(s1)
           given_name == Choice(given_names, s2)
       IN  generator' = [generator EXCEPT
               ![r].names_set = @ \cup {surname \o given_name},
               ![r].rng = s2]
    /\ GeneratorFrame

\* generate_names leaves its loop and returns list(names)
GenerateNamesReturn(r) ==
    /\ generator[r].step = "generate_names"
    /\ ~NamesLoopContinues(Cardinality(generator[r].names_set), gen_call.count)
    /\ generator' = [generator EXCEPT
           ![r].names = ListOfSet(generator[r].names_set,
                                  generator[r].hash_seed),
           ![r].step = "generate_preferences_data"]
    /\ GeneratorFrame

GeneratePreferencesData(r) ==
    /\ generator[r].step = "generate_preferences_data"
    /\ LET data == generate_preferences_data(generator[r].names,
                       gen_call.willing_levels, gen_call.unwilling_levels,
                       DefaultFillRateRange, generator[r].rng)
       IN  generator' = [generator EXCEPT
               ![r].willing_data = data.willing_data,
               ![r].unwilling_data = data.unwilling_data,
               ![r].rng = data.rng,
               ![r].step = "done"]
    /\ GeneratorFrame

NextGenerator ==
    \E r \in Runs :
        \/ GenerateNamesLoop(r)
        \/ GenerateNamesReturn(r)
        \/ GeneratePreferencesData(r)

SpecGenerator == InitGenerator /\ [][NextGenerator]_vars

\* C20: two runs with the same seed and the same calls produce the same
\* name list in the same order and the same preference pairs at every
\* rank, whatever else differs between the runs.
C20_SameSeedSameOutput ==
    (\A r \in Runs : generator[r].step = "done") =>
        /\ generator[1].names = generator[2].names
        /\ generator[1].willing_data = generator[2].willing_data
        /\ generator[1].unwilling_data = generator[2].unwilling_data


(***************************************************************************)
(* load_names_from_excel (utils/data_processor.py).  The column read is a  *)
(* sequence of cells, the first of them the header row; a cell is NaN or a *)
(* string, and a string is a sequence of characters so that trimming and   *)
(* lower-casing are computed.  loader holds the column and, once the       *)
(* function has returned, the list of names.                               *)
(***************************************************************************)

NaN == <<"NaN">>

IsSpace(c) == c = " "

RECURSIVE LStrip(_)
LStrip(s) ==
    IF s # <<>> /\ IsSpace(Head(s)) THEN LStrip(Tail(s)) ELSE s

RECURSIVE RStrip(_)
RStrip(s) ==
    IF s # <<>> /\ IsSpace(s[Len(s)])
    THEN RStrip(SubSeq(s, 1, Len(s) - 1)) ELSE s

\* str.strip()
Strip(s) == RStrip(LStrip(s))

LowerChar(c) ==
    IF c = "N" THEN "n" ELSE IF c = "A" THEN "a" ELSE IF c = "M" THEN "m"
    ELSE IF c = "E" THEN "e" ELSE IF c = "B" THEN "b" ELSE c

\* str.lower()
LowerStr(s) == [i \in DOMAIN s |-> LowerChar(s[i])]

\* the header keywords that are never names; a Chinese character is
\* written by its reading
HeaderKeywords ==
    {<<"xing", "ming">>, <<"n", "a", "m", "e">>, <<"ming", "zi">>,
     <<"xue", "sheng", "xing", "ming">>}

\* df.iloc[1:, 0].dropna(): the cells below the first row that hold a value
DataCells(column) == SelectSeq(Tail(column), LAMBDA cell : cell # NaN)

\* list(dict.fromkeys(names)): the first occurrence of each value, in order
DictFromKeys(cells) ==
    SelectSeq([i \in DOMAIN cells |->
                  IF \E j \in 1..(i - 1) : cells[j] = cells[i]
                  THEN NaN ELSE cells[i]],
              LAMBDA cell : cell # NaN)

\* the trimmed cells that are not empty and not a header keyword
StripAndFilter(cells) ==
    LET kept == SelectSeq(cells, LAMBDA cell :
                    Strip(cell) # <<>>
                    /\ LowerStr(Strip(cell)) \notin HeaderKeywords)
    IN  [i \in DOMAIN kept |-> Strip(kept[i])]

\* an unreadable file and an empty frame give the empty list
load_names_from_excel(column) ==
    IF column = <<>> THEN <<>>
    ELSE StripAndFilter(DictFromKeys(DataCells(column)))

MaxNameRows == 3

NameChars == {" ", "A", "B"}

\* a cell: nothing, one or two characters, or the word Name
NameCells ==
    {NaN, <<"N", "a", "m", "e">>}
        \cup {<<c>> : c \in NameChars}
        \cup {<<c, d>> : c \in NameChars, d \in NameChars}

InitLoader ==
    /\ pc = "load_names_input"
    /\ LayoutInputsIdle /\ LayoutIdle
    /\ WeightInputsIdle
    /\ pair_weights = {}
    /\ SolveIdle
    /\ MetricsIdle /\ AppIdle /\ ExportIdle /\ LauncherIdle /\ GeneratorIdle
    /\ \E n \in 0..MaxNameRows + 1 :
           \E column \in [1..n -> NameCells] :
               loader = [column |-> column, names |-> <<>>]
    /\ manual = <<>> /\ sheet = <<>>

LoadNamesFromExcel ==
    /\ pc = "load_names_input"
    /\ loader' = [loader EXCEPT !.names = load_names_from_excel(loader.column)]
    /\ pc' = "load_names_done"
    /\ UNCHANGED <<layoutVars, weightInputVars, pair_weights, solveVars,
                   exceptIngest, manual, sheet>>

NextLoader == LoadNamesFromExcel

SpecLoader == InitLoader /\ [][NextLoader]_vars

\* the place of the first cell below the header that, trimmed, is the name
FirstAppearance(name) ==
    CHOOSE i \in 2..Len(loader.column) :
        /\ loader.column[i] # NaN /\ Strip(loader.column[i]) = name
        /\ \A j \in 2..(i - 1) :
               loader.column[j] = NaN \/ Strip(loader.column[j]) # name

\* C21: the list returned by load_names_from_excel holds no two equal
\* names and keeps the names in the order of their first appearance in the
\* column, also when cells differ only by leading or trailing spaces.
C21_NamesDistinctInOrder ==
    pc = "load_names_done" =>
        /\ \A i, j \in DOMAIN loader.names :
               i # j => loader.names[i] # loader.names[j]
        /\ \A i, j \in DOMAIN loader.names :
               i < j => FirstAppearance(loader.names[i])
                            < FirstAppearance(loader.names[j])


(***************************************************************************)
(* Manual preference lines (app.py, tab 1) and parse_custom_weights        *)
(* (utils/data_processor.py).  The text is a sequence of lines and a line  *)
(* the sequence of its parts, as line.split(',') gives them, each part     *)
(* already trimmed.  A part is a name, the word "like" (喜欢) or "dislike"  *)
(* (不喜欢), a number, or empty.  manual holds the text and, once the      *)
(* application has handled it, the preferences appended for it.            *)
(***************************************************************************)

NumberParts == {"5", "-5"}

\* float(part) raises ValueError
FloatRaises(part) == part \notin NumberParts

\* float(part), in half units
FloatOf(part) == IF part = "5" THEN 10 ELSE -10

RECURSIVE parse_custom_weights(_)
\* the triples (name1, name2, weight) of the lines that parse
parse_custom_weights(text) ==
    IF text = <<>> THEN <<>>
    ELSE LET parts == Head(text)
             rest == parse_custom_weights(Tail(text))
         IN  IF Len(parts) = 3 /\ ~FloatRaises(parts[3])
                /\ parts[1] # "" /\ parts[2] # ""
             THEN <<<<parts[1], parts[2], FloatOf(parts[3])>>>> \o rest
             ELSE rest

\* tab 1: each triple becomes [name1, "like" or "dislike", name2]
ManualPreferences(text) ==
    LET manual_prefs == parse_custom_weights(text)
    IN  [i \in DOMAIN manual_prefs |->
            <<manual_prefs[i][1],
              IF manual_prefs[i][3] > 0 THEN "like" ELSE "dislike",
              manual_prefs[i][2]>>]

MaxLines == 2

ManualParts == {"A", "B", "like", "dislike", "5", "-5", ""}

\* lines of three parts, a line of two and a line of four
ManualLines ==
    [1..3 -> ManualParts] \cup {<<"A", "B">>, <<"A", "like", "B", "5">>}

InitManual ==
    /\ pc = "manual_input"
    /\ LayoutInputsIdle /\ LayoutIdle
    /\ WeightInputsIdle
    /\ pair_weights = {}
    /\ SolveIdle
    /\ MetricsIdle /\ AppIdle /\ ExportIdle /\ LauncherIdle /\ GeneratorIdle
    /\ loader = <<>> /\ sheet = <<>>
    /\ \E n \in 0..MaxLines :
           \E text \in [1..n -> ManualLines] :
               manual = [text |-> text, preferences |-> <<>>]

\* tab 1: "if manual_preferences.strip():" and the lines below it
HandleManualPreferences ==
    /\ pc = "manual_input"
    /\ manual' = [manual EXCEPT !.preferences = ManualPreferences(manual.text)]
    /\ pc' = "manual_done"
    /\ UNCHANGED <<layoutVars, weightInputVars, pair_weights, solveVars,
                   exceptIngest, loader, sheet>>

NextManual == HandleManualPreferences

SpecManual == InitManual /\ [][NextManual]_vars

\* C22: a line of the advertised form name1,like,name2 (or
\* name1,dislike,name2) with two distinct names yields a willing (or
\* unwilling) preference between name1 and name2 in the preference list.
C22_AdvertisedLineYieldsPreference ==
    pc = "manual_done" =>
        \A i \in DOMAIN manual.text :
            LET line == manual.text[i]
            IN  (/\ Len(line) = 3
                 /\ line[1] \in {"A", "B"} /\ line[3] \in {"A", "B"}
                 /\ line[1] # line[3]
                 /\ line[2] \in {"like", "dislike"}) =>
                    \E j \in DOMAIN manual.preferences :
                        manual.preferences[j] = line


(***************************************************************************)
(* The progress values of solve_top_n_assignments.                         *)
(***************************************************************************)

\* a < b for two fractions of positive denominator
RatioLess(a, b) == a[1] * b[2] < b[1] * a[2]

\* the values a call that started n iterations passes before it returns
ExpectedProgress(n, N) ==
    <<Ratio(0, 10), Ratio(1, 10), Ratio(2, 10), Ratio(3, 10), Ratio(4, 10)>>
        \o [i \in 1..n |-> Ratio(5 * N + 4 * (i - 1), 10 * N)]

\* C23: on a call with people <= seats the values passed to the callback
\* are strictly increasing: 0.0, 0.1, 0.2, 0.3, 0.4, then 0.5 + 0.4*k/N at
\* the start of each started iteration k, never above 0.9, and last exactly
\* one 1.0, which is passed also when the loop was left early.
C23_ProgressIncreasing ==
    /\ \A i \in 1..(Len(progress) - 1) : RatioLess(progress[i], progress[i + 1])
    /\ (pc \in {"loop", "after_loop"}) =>
           /\ progress = ExpectedProgress(Len(statuses), top_n)
           /\ \A i \in 6..Len(progress) :
                  ~RatioLess(Ratio(9, 10), progress[i])
    /\ pc = "solve_done" =>
           progress = Append(ExpectedProgress(Len(statuses), top_n),
                             Ratio(10, 10))

\* Three plans were asked for; the second solve found nothing, the loop was
\* left early and 1.0 was passed after 0.5 and 0.5 + 0.4/3.
C23_Witness ==
    /\ pc = "solve_done"
    /\ top_n = 3 /\ Len(results) = 1 /\ Len(statuses) = 2
    /\ progress[Len(progress)] = Ratio(10, 10)
    /\ progress[7] = Ratio(19, 30)


\* C24: every key of the pair-weight map handed to the optimizer is a pair
\* of exactly two distinct names, so that a manual line naming one person
\* twice never makes solve_top_n_assignments fail on a key of one name.
C24_KeysAreTwoNames ==
    /\ \A e \in session_state.pair_weights : Cardinality(e[1]) = 2
    /\ app_report = "error" => ~WeightedPairsRaises(session_state.pair_weights)


(***************************************************************************)
(* The preference sheet: generate_preferences_data writes it               *)
(* (test_data_generator.py 175-235, DataFrame.to_excel with index=False),  *)
(* auto_detect_preference_ranges (utils/data_processor.py) reads it.  The  *)
(* sheet is a sequence of columns and a column the sequence of its cells   *)
(* from row 1 down; an empty cell is "".  A range "A1:C5" is kept as       *)
(* <<"A", 1, "C", 5>>, no range as <<>>.  sheet holds the pairs of each    *)
(* level, the columns written and the ranges detected.                     *)
(***************************************************************************)

ColumnLetters == <<"A", "B", "C", "D", "E", "F", "G", "H", "I", "J">>

\* chr(ord('A') + col_index), and chr(64 + col) for col = col_index + 1
ColumnLetter(col) == ColumnLetters[col]

\* max_rows: the length of the longest level
MaxRowsOf(willing_data, unwilling_data) ==
    LET lens == {Len(willing_data[i]) : i \in DOMAIN willing_data}
                  \cup {Len(unwilling_data[i]) : i \in DOMAIN unwilling_data}
                  \cup {0}
    IN  CHOOSE m \in lens : \A l \in lens : l <= m

\* combined_data of a level, filled up to max_rows
CombinedData(pairs, max_rows) ==
    [i \in 1..max_rows |->
        IF i <= Len(pairs) THEN pairs[i][1] \o "," \o pairs[i][2] ELSE ""]

\* all_data: the willing levels, an empty column, the unwilling levels
AllData(willing_data, unwilling_data) ==
    LET max_rows == MaxRowsOf(willing_data, unwilling_data)
    IN  [i \in DOMAIN willing_data |->
            CombinedData(willing_data[i], max_rows)]
          \o <<[i \in 1..max_rows |-> ""]>>
          \o [i \in DOMAIN unwilling_data |->
                 CombinedData(unwilling_data[i], max_rows)]

\* df.to_excel(writer, index=False): the keys of all_data become row 1
ToExcel(all_data) ==
    [col \in DOMAIN all_data |-> <<ColumnLetter(col)>> \o all_data[col]]

\* cell_value and str(cell_value).strip()
CellHasData(cell) == cell # ""

\* data_columns: the columns with a cell that has data, in ascending order
data_columns(ws) ==
    SelectSeq([col \in DOMAIN ws |-> col],
              LAMBDA col : \E row \in DOMAIN ws[col] : CellHasData(ws[col][row]))

RECURSIVE GroupColumns(_, _, _)
\* groups: the runs of consecutive data columns
GroupColumns(dc, i, groups) ==
    IF i > Len(dc) THEN groups
    ELSE IF dc[i] - dc[i - 1] = 1
         THEN GroupColumns(dc, i + 1,
                  [groups EXCEPT ![Len(groups)] = Append(@, dc[i])])
         ELSE GroupColumns(dc, i + 1, Append(groups, <<dc[i]>>))

find_max_row_in_cols(ws, cols) ==
    LET rows == {row \in 1..Len(ws[1]) :
                    \E i \in DOMAIN cols : CellHasData(ws[cols[i]][row])}
                  \cup {1}
    IN  CHOOSE m \in rows : \A r \in rows : r <= m

RangeOf(ws, cols) ==
    IF cols = <<>> THEN <<>>
    ELSE <<ColumnLetter(cols[1]), 1, ColumnLetter(cols[Len(cols)]),
           find_max_row_in_cols(ws, cols)>>

\* <<willing_range, unwilling_range>>
auto_detect_preference_ranges(ws) ==
    LET max_col == IF ws = <<>> THEN 1 ELSE Len(ws)
        max_row == IF ws = <<>> THEN 1 ELSE Len(ws[1])
        dc == data_columns(ws)
    IN  IF (max_row = 1 /\ max_col = 1) \/ Len(dc) < 2
        THEN <<<<>>, <<>>>>
        ELSE LET groups == GroupColumns(dc, 2, <<<<dc[1]>>>>)
             IN  <<RangeOf(ws, groups[1]),
                   RangeOf(ws, IF Len(groups) >= 2 THEN groups[2] ELSE <<>>)>>

MaxSheetLevels == 2
MaxSheetPairs == 2

SheetPairs == {<<"A", "B">>, <<"C", "A">>}

\* the pairs of one level
LevelData ==
    UNION {[1..n -> SheetPairs] : n \in 0..MaxSheetPairs}

InitSheet ==
    /\ pc = "sheet_input"
    /\ LayoutInputsIdle /\ LayoutIdle
    /\ WeightInputsIdle
    /\ pair_weights = {}
    /\ SolveIdle
    /\ MetricsIdle /\ AppIdle /\ ExportIdle /\ LauncherIdle /\ GeneratorIdle
    /\ loader = <<>> /\ manual = <<>>
    /\ \E W \in 1..MaxSheetLevels, U \in 1..MaxSheetLevels :
           \E wd \in [1..W -> LevelData], ud \in [1..U -> LevelData] :
               sheet = [willing_data |-> wd, unwilling_data |-> ud,
                        ws |-> <<>>, ranges |-> <<>>]

\* generate_preferences_data, lines 175-235: the sheet is written
WriteSheet ==
    /\ pc = "sheet_input"
    /\ sheet' = [sheet EXCEPT
           !.ws = ToExcel(AllData(sheet.willing_data, sheet.unwilling_data))]
    /\ pc' = "sheet_written"
    /\ UNCHANGED <<layoutVars, weightInputVars, pair_weights, solveVars,
                   exceptIngest, loader, manual>>

AutoDetectPreferenceRanges ==
    /\ pc = "sheet_written"
    /\ sheet' = [sheet EXCEPT !.ranges = auto_detect_preference_ranges(sheet.ws)]
    /\ pc' = "sheet_detected"
    /\ UNCHANGED <<layoutVars, weightInputVars, pair_weights, solveVars,
                   exceptIngest, loader, manual>>

NextSheet == WriteSheet \/ AutoDetectPreferenceRanges

SpecSheet == InitSheet /\ [][NextSheet]_vars

\* C25: in a sheet written for W >= 1 willing and U >= 1 unwilling levels
\* the column between the willing and the unwilling columns has no
\* non-empty cell, header row included, and the ranges detected in it are
\* exactly the first W columns and the U columns after the separator.
C25_SeparatorSplitsBlocks ==
    pc = "sheet_detected" =>
        LET W == Len(sheet.willing_data)
            U == Len(sheet.unwilling_data)
        IN  /\ \A row \in DOMAIN sheet.ws[W + 1] :
                   ~CellHasData(sheet.ws[W + 1][row])
            /\ sheet.ranges[1] # <<>>
            /\ sheet.ranges[1][1] = ColumnLetter(1)
            /\ sheet.ranges[1][3] = ColumnLetter(W)
            /\ sheet.ranges[2] # <<>>
            /\ sheet.ranges[2][1] = ColumnLetter(W + 2)
            /\ sheet.ranges[2][3] = ColumnLetter(W + 1 + U)


\* C26: whenever the session holds results, they were produced from the
\* seats and names the session holds: every seat index of every stored
\* assignment is an index into the stored seat list, and the stored names
\* are the domain of every stored assignment.
C26_ResultsMatchSession ==
    \A i \in DOMAIN session_state.results :
        LET assignment == session_state.results[i].assignment
        IN  /\ DOMAIN assignment = Range(session_state.names)
            /\ \A person \in DOMAIN assignment :
                   assignment[person] \in 0..Len(session_state.seats) - 1


\* C27: a plan whose solve ended with status optimal has an objective at
\* least as great as that of every later plan of the same call; so if all
\* solves are optimal the objectives do not increase in plan order, and a
\* later plan exceeds an earlier one only if the earlier solve stopped at a
\* feasible solution.
C27_OptimalPlansNonIncreasing ==
    \A i, j \in 1..Len(results) :
        (i < j /\ results[i].status = "OPTIMAL") =>
            results[i].objective >= results[j].objective

\* Three optimal plans: A and B, who dislike each other, sit apart in the
\* first two and side by side in the third.
C27_Witness ==
    /\ pc = "solve_done"
    /\ Len(results) = 3
    /\ \A i \in 1..3 : results[i].status = "OPTIMAL"
    /\ results[1].objective = 0 /\ results[2].objective = 0
    /\ results[3].objective = -10

---------------------------------------------------------------------------
(* C28: the number of plans is bounded by top_n and by the number of ways  *)
(* of seating the people.                                                  *)

\* the ways of seating P people on S seats, nobody sharing a seat
InjectiveAssignments(P, S) ==
    {f \in [0..P - 1 -> 0..S - 1] : \A i, j \in 0..P - 1 : f[i] = f[j] => i = j}

PlanLimit(P, S, N) ==
    LET c == Cardinality(InjectiveAssignments(P, S))
    IN  IF N < c THEN N ELSE c

\* C28: with at least as many seats as people, the call never holds more
\* plans than min(top_n, number of injective assignments); when the cuts
\* exclude every injective assignment the model has no solution left, so
\* the next solve cannot succeed, and the call returns instead of raising;
\* a returned call in which no solve gave up without an answer holds
\* exactly that minimum of plans.
C28_PlanCountIsMinimum ==
    (model_built /\ Len(people) <= Len(seats)) =>
        /\ Len(results) <= PlanLimit(Len(people), Len(seats), top_n)
        /\ InjectiveAssignments(Len(people), Len(seats)) \subseteq Range(cuts)
               => /\ Solutions(Len(people), Len(seats), cuts) = {}
                  /\ \A o \in SolveOutcomes(m_terms, Len(people), Len(seats), cuts) :
                         ~StatusOk(o[1])
        /\ pc \notin {"solve_input", "solve_check", "loop", "after_loop"}
               => pc = "solve_done" /\ outcome.kind = "returned"
        /\ (pc = "solve_done" /\ \A i \in 1..Len(statuses) : statuses[i] # "UNKNOWN")
               => Len(results) = PlanLimit(Len(people), Len(seats), top_n)

\* One person, one seat, three plans asked for: one plan, then an infeasible
\* solve, then a normal return.
C28_Witness ==
    /\ pc = "solve_done"
    /\ Len(people) = 1 /\ Len(seats) = 1 /\ top_n = 3
    /\ Len(results) = 1
    /\ statuses = <<"OPTIMAL", "INFEASIBLE">>
    /\ outcome.kind = "returned"

---------------------------------------------------------------------------
(* C29: the adjacency test of the exporter against the edges of the        *)
(* layout.                                                                 *)

\* two people seated on the seats of index i and j
SeatedPair(i, j) == [person \in {"A", "B"} |-> IF person = "A" THEN i ELSE j]

\* C29: with diagonal adjacency enabled, for every layout and every two
\* seats, the exporter's are_seats_adjacent holds of two people on these
\* seats exactly when the pair of seats is an edge of
\* generate_adjacent_edges.
C29_ExporterAgreesWithEdges ==
    (pc = "edges_done" /\ include_diag) =>
        \A i, j \in 0..Len(seats) - 1 :
            are_seats_adjacent(SeatedPair(i, j), seats, "A", "B")
                <=> <<seats[i + 1], seats[j + 1]>> \in Range(oriented_edges)

(***************************************************************************)
(* generate_names under fair random choice.  Here random.choice is not a   *)
(* function of the seed: a turn of the loop draws any surname and any      *)
(* given name, and fairness says that a name that stays possible is drawn  *)
(* at some time.  A turn that draws a name already in the set leaves the   *)
(* state as it is.  One run; count ranges beyond the number of names that  *)
(* exist.                                                                  *)
(***************************************************************************)

\* the number of surname and given-name combinations
NameCombinations == Len(surnames) * Len(given_names)

MaxNamesCount == 7

InitNames ==
    /\ pc = "generator"
    /\ LayoutInputsIdle /\ LayoutIdle
    /\ WeightInputsIdle
    /\ pair_weights = {}
    /\ SolveIdle
    /\ MetricsIdle
    /\ AppIdle
    /\ ExportIdle
    /\ LauncherIdle
    /\ IngestIdle
    /\ gen_seed = 0
    /\ \E count \in 0..MaxNamesCount :
           gen_call = [count |-> count, willing_levels |-> 0,
                       unwilling_levels |-> 0]
    /\ \E hs \in HashSeeds :
           generator = [r \in {1} |->
               [hash_seed |-> hs, rng |-> Seeded(gen_seed),
                step |-> "generate_names", names_set |-> {}, names |-> <<>>,
                willing_data |-> <<>>, unwilling_data |-> <<>>]]

\* one turn of the loop in which random.choice gives surname and given_name
GenerateNamesChoose(r, surname, given_name) ==
    /\ generator[r].step = "generate_names"
    /\ NamesLoopContinues(Cardinality(generator[r].names_set), gen_call.count)
    /\ generator' = [generator EXCEPT
           ![r].names_set = @ \cup {surname \o given_name}]
    /\ GeneratorFrame

NextNames ==
    \/ \E surname \in Range(surnames), given_name \in Range(given_names) :
           GenerateNamesChoose(1, surname, given_name)
    \/ GenerateNamesReturn(1)

\* every name that stays possible is drawn, and the return is taken
FairNames ==
    /\ \A surname \in Range(surnames), given_name \in Range(given_names) :
           WF_vars(GenerateNamesChoose(1, surname, given_name))
    /\ WF_vars(GenerateNamesReturn(1))

SpecNames == InitNames /\ [][NextNames]_vars /\ FairNames

NamesReturned == generator[1].step # "generate_names"

\* C30: generate_names(count) returns, and then with exactly count
\* pairwise distinct names, when count is at most the number of surname
\* and given-name combinations; for a larger count it never returns and
\* its loop condition stays true.
C30_ReturnsIffEnoughNames ==
    /\ (gen_call.count <= NameCombinations) ~> NamesReturned
    /\ [](NamesReturned =>
             /\ gen_call.count <= NameCombinations
             /\ Len(generator[1].names) = gen_call.count
             /\ \A i, j \in 1..Len(generator[1].names) :
                    generator[1].names[i] = generator[1].names[j] => i = j)
    /\ [](gen_call.count > NameCombinations =>
             /\ ~NamesReturned
             /\ NamesLoopContinues(Cardinality(generator[1].names_set),
                                   gen_call.count))

\* Every name that exists was asked for and returned.
C30_Witness ==
    /\ NamesReturned
    /\ gen_call.count = NameCombinations
    /\ Cardinality(Range(generator[1].names)) = NameCombinations

=============================================================================
